---- MODULE Spec2Model ----
(***************************************************************************)
(* Model of CGAL::Triangulation_data_structure                              *)
(* (Triangulation/include/CGAL/Triangulation_data_structure.h).             *)
(*                                                                          *)
(* The structure is a pool of vertices and a pool of full cells.  Handles   *)
(* are naturals, 0 is the null handle.  Every operation is an operator on   *)
(* a record T holding the data members (dcur, vertices, full_cells) and     *)
(* the way the running call ended (err); a call that fails an assertion or  *)
(* a precondition, or that uses an invalid handle, stops where it is and    *)
(* leaves err different from "ok".                                          *)
(***************************************************************************)
EXTENDS Integers, Sequences, FiniteSets, TLC

\* ---------------------------------------------------------------- bounds
AmbientDim == 3
MaxVertices == 7
MaxOps == 5
MaxOpsBuilt == 1
MaxTurns == 6
MaxLowOps == 4
MaxLowDim == 1
MaxLowPool == 3
MaxCycleOps == 7
MaxCells == 3 * MaxVertices

Null == 0
Bad == 0 - 9
VH == 1..MaxVertices
FCH == 1..MaxCells
Slots == 0..AmbientDim

VARIABLES dcur, vertices, full_cells, err, op, ret, pre, budget, used

vars == <<dcur, vertices, full_cells, err, op, ret, pre, budget, used>>

\* ------------------------------------------------------- records & pools
BlankVertex == [live |-> FALSE, full_cell |-> Null]

\* Triangulation_ds_full_cell(dmax): every slot null, mirror indices -1
BlankCell ==
  [live |-> FALSE,
   vertex |-> [i \in Slots |-> Null],
   neighbor |-> [i \in Slots |-> Null],
   mirror_index |-> [i \in Slots |-> 0 - 1],
   visited |-> FALSE]

EmptyTDS ==
  [dcur |-> 0 - 2,
   vertices |-> [v \in VH |-> BlankVertex],
   full_cells |-> [s \in FCH |-> BlankCell],
   err |-> "ok",
   out |-> <<>>]

Fail(T, e) == IF T.err = "ok" THEN [T EXCEPT !.err = e] ELSE T

MinOf(S) == CHOOSE x \in S : \A y \in S : x <= y

\* x is evaluated once and F applied to its value
Bind(x, F(_)) == CHOOSE r \in {F(y) : y \in {x}} : TRUE

is_vertex(T, v) == v \in VH /\ T.vertices[v].live
is_full_cell(T, s) == s \in FCH /\ T.full_cells[s].live

LiveVertices(T) == {v \in VH : T.vertices[v].live}
LiveCells(T) == {s \in FCH : T.full_cells[s].live}

number_of_vertices(T) == Cardinality(LiveVertices(T))
number_of_full_cells(T) == Cardinality(LiveCells(T))

\* Compact_container::emplace: the handle the next insertion returns
NextVertex(T) ==
  IF LiveVertices(T) = VH THEN Bad ELSE MinOf(VH \ LiveVertices(T))
NextCell(T) ==
  IF LiveCells(T) = FCH THEN Bad ELSE MinOf(FCH \ LiveCells(T))

\* ------------------------------------------------- Full_cell member access
\* s->vertex(i), s->neighbor(i), s->mirror_index(i): Bad when the handle is
\* null or erased or the slot is outside 0..dmax
fc_vertex(T, s, i) ==
  IF is_full_cell(T, s) /\ i \in Slots THEN T.full_cells[s].vertex[i] ELSE Bad
fc_neighbor(T, s, i) ==
  IF is_full_cell(T, s) /\ i \in Slots THEN T.full_cells[s].neighbor[i] ELSE Bad
fc_mirror_index(T, s, i) ==
  IF is_full_cell(T, s) /\ i \in Slots
  THEN T.full_cells[s].mirror_index[i] ELSE Bad

\* s->index(v): first slot of 0..dmax holding v; AmbientDim+1 when absent
RECURSIVE ScanVertex(_, _, _, _)
ScanVertex(T, s, v, i) ==
  IF i > AmbientDim THEN i
  ELSE IF T.full_cells[s].vertex[i] = v THEN i
  ELSE ScanVertex(T, s, v, i + 1)

has_vertex(T, s, v) ==
  is_full_cell(T, s) /\ ScanVertex(T, s, v, 0) <= AmbientDim

fc_index(T, s, v) ==
  IF has_vertex(T, s, v) THEN ScanVertex(T, s, v, 0) ELSE Bad

\* s->mirror_vertex(i, cur_dim)
mirror_vertex(T, s, i) ==
  fc_vertex(T, fc_neighbor(T, s, i), fc_mirror_index(T, s, i))

get_visited(T, s) == is_full_cell(T, s) /\ T.full_cells[s].visited

set_visited(T, s, m) ==
  IF T.err # "ok" THEN T
  ELSE IF ~is_full_cell(T, s) THEN Fail(T, "bad_access")
  ELSE [T EXCEPT !.full_cells[s].visited = m]

set_vertex(T, s, i, v) ==
  IF T.err # "ok" THEN T
  ELSE IF ~is_full_cell(T, s) \/ i \notin Slots \/ v = Bad
       THEN Fail(T, "bad_access")
  ELSE [T EXCEPT !.full_cells[s].vertex[i] = v]

set_neighbor(T, s, i, n) ==
  IF T.err # "ok" THEN T
  ELSE IF ~is_full_cell(T, s) \/ i \notin Slots \/ n = Bad
       THEN Fail(T, "bad_access")
  ELSE [T EXCEPT !.full_cells[s].neighbor[i] = n]

set_mirror_index(T, s, i, j) ==
  IF T.err # "ok" THEN T
  ELSE IF ~is_full_cell(T, s) \/ i \notin Slots \/ j = Bad
       THEN Fail(T, "bad_access")
  ELSE [T EXCEPT !.full_cells[s].mirror_index[i] = j]

set_full_cell(T, v, s) ==
  IF T.err # "ok" THEN T
  ELSE IF ~is_vertex(T, v) \/ s = Bad THEN Fail(T, "bad_access")
  ELSE [T EXCEPT !.vertices[v].full_cell = s]

\* the neighbour across slot i is told where s now finds it; a neighbour
\* that is null or erased has no slot to update
FixMirror(T, s, i) ==
  LET n == T.full_cells[s].neighbor[i]
      m == T.full_cells[s].mirror_index[i]
  IN IF is_full_cell(T, n) /\ m \in Slots
     THEN [T EXCEPT !.full_cells[n].mirror_index[m] = i]
     ELSE T

\* s->swap_vertices(d1, d2): vertices, neighbours and mirror indices
swap_vertices(T, s, d1, d2) ==
  IF T.err # "ok" THEN T
  ELSE IF ~is_full_cell(T, s) \/ d1 \notin Slots \/ d2 \notin Slots
       THEN Fail(T, "bad_access")
  ELSE LET c == T.full_cells[s]
           c2 == [c EXCEPT
                    !.vertex[d1] = c.vertex[d2], !.vertex[d2] = c.vertex[d1],
                    !.neighbor[d1] = c.neighbor[d2],
                    !.neighbor[d2] = c.neighbor[d1],
                    !.mirror_index[d1] = c.mirror_index[d2],
                    !.mirror_index[d2] = c.mirror_index[d1]]
           T1 == [T EXCEPT !.full_cells[s] = c2]
       IN FixMirror(FixMirror(T1, s, d1), s, d2)

Plus1(x) == IF x = Bad THEN Bad ELSE x + 1

\* ------------------------------------------------------------ TDS queries
current_dimension(T) == T.dcur

check_range(T, i) ==
  IF current_dimension(T) < 0 THEN i = 0
  ELSE 0 <= i /\ i <= current_dimension(T)

tds_vertex(T, s, i) ==
  IF s # Null /\ check_range(T, i) THEN fc_vertex(T, s, i) ELSE Bad
tds_neighbor(T, s, i) ==
  IF s # Null /\ check_range(T, i) THEN fc_neighbor(T, s, i) ELSE Bad
tds_mirror_index(T, s, i) ==
  IF s # Null /\ check_range(T, i) THEN fc_mirror_index(T, s, i) ELSE Bad

\* ---------------------------------------------------- low-level mutators
clear(T) == [EmptyTDS EXCEPT !.err = T.err, !.out = T.out]

set_current_dimension(T, d) ==
  IF T.err # "ok" THEN T
  ELSE IF ~(0 - 1 <= d /\ d <= AmbientDim) THEN Fail(T, "precondition")
  ELSE [T EXCEPT !.dcur = d]

new_full_cell(T) ==
  IF T.err # "ok" THEN T
  ELSE IF NextCell(T) = Bad THEN Fail(T, "capacity")
  ELSE [T EXCEPT !.full_cells[NextCell(T)] = [BlankCell EXCEPT !.live = TRUE]]

new_full_cell_copy(T, s) ==
  IF T.err # "ok" THEN T
  ELSE IF NextCell(T) = Bad THEN Fail(T, "capacity")
  ELSE IF ~is_full_cell(T, s) THEN Fail(T, "bad_access")
  ELSE [T EXCEPT !.full_cells[NextCell(T)] = T.full_cells[s]]

delete_full_cell(T, s) ==
  IF T.err # "ok" THEN T
  ELSE IF s = Null THEN Fail(T, "precondition")
  ELSE IF ~is_full_cell(T, s) THEN Fail(T, "bad_access")
  ELSE [T EXCEPT !.full_cells[s] = BlankCell]

new_vertex(T) ==
  IF T.err # "ok" THEN T
  ELSE IF NextVertex(T) = Bad THEN Fail(T, "capacity")
  ELSE [T EXCEPT !.vertices[NextVertex(T)] = [BlankVertex EXCEPT !.live = TRUE]]

delete_vertex(T, v) ==
  IF T.err # "ok" THEN T
  ELSE IF v = Null THEN Fail(T, "precondition")
  ELSE IF ~is_vertex(T, v) THEN Fail(T, "bad_access")
  ELSE [T EXCEPT !.vertices[v] = BlankVertex]

\* the vertex is stored in the cell, the cell is not stored in the vertex
associate_vertex_only(T, s, i, v) ==
  IF T.err # "ok" THEN T
  ELSE IF ~check_range(T, i) \/ s = Null \/ v = Null
       THEN Fail(T, "precondition")
  ELSE set_vertex(T, s, i, v)

associate_vertex_with_full_cell(T, s, i, v) ==
  IF T.err # "ok" THEN T
  ELSE IF ~check_range(T, i) \/ s = Null \/ v = Null
       THEN Fail(T, "precondition")
  ELSE set_full_cell(set_vertex(T, s, i, v), v, s)

\* set_neighbors without the mirror index of the second cell
set_neighbors_half_mirrored(T, s, i, s1, j) ==
  IF T.err # "ok" THEN T
  ELSE IF ~check_range(T, i) \/ ~check_range(T, j) \/ s = Null \/ s1 = Null
       THEN Fail(T, "precondition")
  ELSE set_mirror_index(
         set_neighbor(set_neighbor(T, s, i, s1), s1, j, s), s, i, j)

set_neighbors(T, s, i, s1, j) ==
  IF T.err # "ok" THEN T
  ELSE IF ~check_range(T, i) \/ ~check_range(T, j) \/ s = Null \/ s1 = Null
       THEN Fail(T, "precondition")
  ELSE set_mirror_index(
         set_mirror_index(
           set_neighbor(set_neighbor(T, s, i, s1), s1, j, s),
           s, i, j),
         s1, j, i)

\* ------------------------------------------------- dimension increase
\* lines 1025-1026: the twin gets the old vertices shifted one slot right
RECURSIVE ShiftVertices(_, _, _, _)
ShiftVertices(T, S, S_new, k) ==
  IF T.err # "ok" \/ k > current_dimension(T) THEN T
  ELSE ShiftVertices(
         associate_vertex_with_full_cell(T, S_new, k, tds_vertex(T, S, k - 1)),
         S, S_new, k + 1)

\* lines 1011-1033: S walks the container in handle order while twins are
\* inserted into it; the result carries swap_me
RECURSIVE ExtendCells(_, _, _, _, _)
ExtendCells(T, S, x, star, swap_me) ==
  IF T.err # "ok" \/ S > MaxCells THEN [t |-> T, swap_me |-> swap_me]
  ELSE IF ~is_full_cell(T, S) THEN ExtendCells(T, S + 1, x, star, swap_me)
  ELSE IF T.full_cells[S].vertex[current_dimension(T)] # Null
       THEN ExtendCells(T, S + 1, x, star, swap_me)
  ELSE
    Bind(associate_vertex_with_full_cell(
           set_visited(T, S, TRUE), S, current_dimension(T), x),
         LAMBDA T1 :
           LET cur_dim == T1.dcur
               S_new == NextCell(T1)
           IN IF ~has_vertex(T1, S, star)
              THEN ExtendCells(
                     ShiftVertices(
                       associate_vertex_with_full_cell(
                         set_neighbors(new_full_cell(T1), S, cur_dim, S_new, 0),
                         S_new, 0, star),
                       S, S_new, 1),
                     S + 1, x, star, swap_me)
              ELSE IF cur_dim = 2
                      /\ fc_mirror_index(T1, S, fc_index(T1, S, star)) = 0
                   THEN ExtendCells(T1, S + 1, x, star, S)
                   ELSE ExtendCells(T1, S + 1, x, star, swap_me))

\* lines 1053-1062: neighbours of the twin of a cell without star
RECURSIVE LinkTwin(_, _, _, _, _)
LinkTwin(T, S, S_new, star, k) ==
  IF T.err # "ok" \/ k >= current_dimension(T) THEN T
  ELSE LET S_opp == tds_neighbor(T, S, k)
       IN IF ~is_full_cell(T, S_opp) THEN Fail(T, "bad_access")
          ELSE IF ~has_vertex(T, S_opp, star)
          THEN LinkTwin(
                 set_neighbors(T, S_new, k + 1,
                               tds_neighbor(T, S_opp, current_dimension(T)),
                               Plus1(tds_mirror_index(T, S, k))),
                 S, S_new, star, k + 1)
          ELSE LinkTwin(T, S, S_new, star, k + 1)

\* lines 1064-1069: unmark and enqueue the marked neighbours of S
RECURSIVE PushMarked(_, _, _, _)
PushMarked(T, S, queue, k) ==
  IF T.err # "ok" \/ k >= current_dimension(T) THEN [t |-> T, queue |-> queue]
  ELSE LET n == tds_neighbor(T, S, k)
       IN IF ~is_full_cell(T, n)
          THEN [t |-> Fail(T, "bad_access"), queue |-> queue]
          ELSE IF get_visited(T, n)
          THEN PushMarked(set_visited(T, n, FALSE), S, Append(queue, n), k + 1)
          ELSE PushMarked(T, S, queue, k + 1)

\* a cell left without the neighbours it misses
LinkOneNone(T, S, star) == T

\* lines 1041-1063: the neighbours S still misses
LinkOne(T, S, star) ==
  IF has_vertex(T, S, star)
  THEN set_neighbors(
         T, S, current_dimension(T),
         tds_neighbor(T, tds_neighbor(T, S, fc_index(T, S, star)),
                      current_dimension(T)),
         Plus1(tds_mirror_index(T, S, fc_index(T, S, star))))
  ELSE LinkTwin(T, S, tds_neighbor(T, S, current_dimension(T)), star, 0)

\* lines 1038-1070
RECURSIVE LinkCells(_, _, _)
LinkCells(T, queue, star) ==
  IF T.err # "ok" \/ queue = <<>> THEN T
  ELSE Bind(PushMarked(LinkOne(T, Head(queue), star), Head(queue),
                       Tail(queue), 0),
            LAMBDA r : LinkCells(r.t, r.queue, star))

\* a parity correction that swaps nothing
ParitySwapNone(T, S, x) == T

\* lines 1073-1077
RECURSIVE ParitySwap(_, _, _)
ParitySwap(T, S, x) ==
  IF T.err # "ok" \/ S > MaxCells THEN T
  ELSE IF is_full_cell(T, S)
          /\ x # T.full_cells[S].vertex[current_dimension(T)]
       THEN ParitySwap(
              swap_vertices(T, S, current_dimension(T) - 1,
                            current_dimension(T)),
              S + 1, x)
       ELSE ParitySwap(T, S + 1, x)

\* lines 1008-1070: the cells extended, the twins created and linked; the
\* result carries the cell to swap at the end
ExtendedAndLinked(T, x, star) ==
  LET start == IF LiveCells(T) = {} THEN Bad ELSE MinOf(LiveCells(T))
  IN Bind(ExtendCells(T, 1, x, star, Null),
          LAMBDA e :
            [t |-> LinkCells(set_visited(e.t, start, FALSE), <<start>>, star),
             swap_me |-> e.swap_me])

\* lines 1071-1078: cur_dim is the dimension already raised
ParityCorrected(T, x) ==
  LET cur_dim == current_dimension(T)
  IN IF cur_dim % 2 = 0 /\ cur_dim > 1 THEN ParitySwap(T, 1, x) ELSE T

do_insert_increase_dimension(T, x, star) ==
  IF T.err # "ok" THEN T
  ELSE
    Bind(ExtendedAndLinked(T, x, star),
         LAMBDA r :
           Bind(ParityCorrected(r.t, x),
                LAMBDA T2 :
                  IF r.swap_me # Null
                  THEN swap_vertices(T2, r.swap_me, 1, 2)
                  ELSE T2))

\* lines 1100-1126: the dimension raised, the vertex created and linked
RaiseDimension(T, star, prev_cur_dim) ==
  Bind(new_vertex(set_current_dimension(T, prev_cur_dim + 1)),
       LAMBDA T1 :
         LET v == NextVertex(T) IN
         CASE prev_cur_dim = 0 - 2 ->
                associate_vertex_with_full_cell(
                  new_full_cell(T1), NextCell(T1), 0, v)
           [] prev_cur_dim = 0 - 1 ->
                IF ~is_vertex(T1, star) THEN Fail(T1, "bad_access")
                ELSE
                  LET infinite_full_cell == T1.vertices[star].full_cell
                      finite_full_cell == NextCell(T1)
                  IN set_neighbors(
                       associate_vertex_with_full_cell(
                         new_full_cell(T1), finite_full_cell, 0, v),
                       infinite_full_cell, 0, finite_full_cell, 0)
           [] OTHER -> do_insert_increase_dimension(T1, v, star))

\* the preconditions looked at after the dimension was raised and the
\* vertex created
insert_increase_dimension_late(T, star) ==
  LET prev_cur_dim == current_dimension(T)
  IN IF \/ ~(prev_cur_dim < AmbientDim)
        \/ prev_cur_dim # 0 - 2 /\ star = Null
        \/ prev_cur_dim = 0 - 2 /\ star # Null
     THEN Fail(new_vertex([T EXCEPT !.dcur = prev_cur_dim + 1]),
               "precondition")
     ELSE RaiseDimension(T, star, prev_cur_dim)

insert_increase_dimension(T, star) ==
  LET prev_cur_dim == current_dimension(T)
  IN IF ~(prev_cur_dim < AmbientDim) THEN Fail(T, "precondition")
     ELSE IF prev_cur_dim # 0 - 2 /\ star = Null THEN Fail(T, "precondition")
     ELSE IF prev_cur_dim = 0 - 2 /\ star # Null THEN Fail(T, "precondition")
     ELSE RaiseDimension(T, star, prev_cur_dim)

\* ------------------------------------------------ facets, faces, rotors
\* Facet = <<cell, covertex>>, Rotor = <<cell, covertex, second covertex>>,
\* Face = [full_cell, indices]: the slots of the face's vertices
full_cell(f) == f[1]
index_of_covertex(f) == f[2]
index_of_second_covertex(f) == f[3]

feature_dimension(f) == Len(f.indices) - 1
face_index(f, i) == f.indices[i + 1]
face_vertex(T, f, i) == fc_vertex(T, f.full_cell, face_index(f, i))
FaceVertices(T, f) == {face_vertex(T, f, i) : i \in 0..feature_dimension(f)}

\* the handles is_boundary_facet dereferences are live
FacetFollows(T, f) ==
  /\ is_full_cell(T, full_cell(f))
  /\ is_full_cell(T, tds_neighbor(T, full_cell(f), index_of_covertex(f)))

is_boundary_facet(T, f) ==
  IF get_visited(T, tds_neighbor(T, full_cell(f), index_of_covertex(f)))
  THEN FALSE
  ELSE IF ~get_visited(T, full_cell(f)) THEN FALSE
  ELSE TRUE

\* the facet crossed is the one opposite the second covertex
rotate_rotor_across_second(T, f) ==
  LET opposite ==
        tds_mirror_index(T, full_cell(f), index_of_second_covertex(f))
      s == tds_neighbor(T, full_cell(f), index_of_second_covertex(f))
      new_second ==
        fc_index(T, s, tds_vertex(T, full_cell(f), index_of_covertex(f)))
  IN <<s, new_second, opposite>>

\* the two slots of the rotor returned are exchanged
rotate_rotor_exchanged(T, f) ==
  LET opposite == tds_mirror_index(T, full_cell(f), index_of_covertex(f))
      s == tds_neighbor(T, full_cell(f), index_of_covertex(f))
      new_second ==
        fc_index(T, s, tds_vertex(T, full_cell(f), index_of_second_covertex(f)))
  IN <<s, opposite, new_second>>

\* the rotor keeps its second covertex slot instead of the mirror index
rotate_rotor_unmirrored(T, f) ==
  LET s == tds_neighbor(T, full_cell(f), index_of_covertex(f))
      new_second ==
        fc_index(T, s, tds_vertex(T, full_cell(f), index_of_second_covertex(f)))
  IN <<s, new_second, index_of_covertex(f)>>

rotate_rotor(T, f) ==
  LET opposite == tds_mirror_index(T, full_cell(f), index_of_covertex(f))
      s == tds_neighbor(T, full_cell(f), index_of_covertex(f))
      new_second ==
        fc_index(T, s, tds_vertex(T, full_cell(f), index_of_second_covertex(f)))
  IN <<s, new_second, opposite>>

\* ------------------------------------------------------------- gathering
\* a traversal predicate is data: the incident predicate of a face, the
\* star predicate of a face, or the set of facets on which it is true
\* only the first vertex of the face is compared
IncidentToFirstVertex(T, f, facet) ==
  fc_vertex(T, full_cell(facet), index_of_covertex(facet))
    # face_vertex(T, f, 0)

Incident_full_cell_traversal_predicate(T, f, facet) ==
  LET v == fc_vertex(T, full_cell(facet), index_of_covertex(facet))
  IN \A i \in 0..feature_dimension(f) : v # face_vertex(T, f, i)

\* only the first vertex of the face is looked for
StarOfFirstVertex(T, f, facet) ==
  LET s == fc_neighbor(T, full_cell(facet), index_of_covertex(facet))
  IN \E j \in 0..current_dimension(T) :
       fc_vertex(T, s, j) = face_vertex(T, f, 0)

Star_traversal_predicate(T, f, facet) ==
  LET s == fc_neighbor(T, full_cell(facet), index_of_covertex(facet))
  IN \E j \in 0..current_dimension(T) :
       \E i \in 0..feature_dimension(f) :
         fc_vertex(T, s, j) = face_vertex(T, f, i)

\* a predicate that accepts every facet
AcceptsEveryFacet(T, tp, facet) == TRUE

TraversalPredicate(T, tp, facet) ==
  CASE tp.kind = "incident" ->
         Incident_full_cell_traversal_predicate(T, tp.f, facet)
    [] tp.kind = "star" -> Star_traversal_predicate(T, tp.f, facet)
    [] OTHER -> facet \in tp.facets

\* the handles the predicate dereferences are live
PredicateFollows(T, tp, facet) ==
  /\ is_full_cell(T, full_cell(facet))
  /\ tp.kind \in {"incident", "star"} => is_full_cell(T, tp.f.full_cell)
  /\ tp.kind = "star" =>
       is_full_cell(T, fc_neighbor(T, full_cell(facet),
                                   index_of_covertex(facet)))

\* lines 993-1000
RECURSIVE ClearNeighbors(_, _, _, _)
ClearNeighbors(T, s, queue, i) ==
  IF T.err # "ok" \/ i > current_dimension(T) THEN [t |-> T, queue |-> queue]
  ELSE LET n == fc_neighbor(T, s, i)
       IN IF ~is_full_cell(T, n)
          THEN [t |-> Fail(T, "bad_access"), queue |-> queue]
          ELSE IF get_visited(T, n)
          THEN ClearNeighbors(set_visited(T, n, FALSE), s, Append(queue, n),
                              i + 1)
          ELSE ClearNeighbors(T, s, queue, i + 1)

RECURSIVE ClearLoop(_, _)
ClearLoop(T, queue) ==
  IF T.err # "ok" \/ queue = <<>> THEN T
  ELSE Bind(ClearNeighbors(T, Head(queue), Tail(queue), 0),
            LAMBDA r : ClearLoop(r.t, r.queue))

\* only the start cell is unmarked
clear_start_mark(T, start) ==
  IF T.err # "ok" THEN T
  ELSE IF start = Null THEN Fail(T, "precondition")
  ELSE set_visited(T, start, FALSE)

clear_visited_marks(T, start) ==
  IF T.err # "ok" THEN T
  ELSE IF start = Null THEN Fail(T, "precondition")
  ELSE ClearLoop(set_visited(T, start, FALSE), <<start>>)

\* lines 629-640: the result carries the queue and the last rejected facet
RECURSIVE GatherNeighbors(_, _, _, _, _, _)
GatherNeighbors(T, s, tp, queue, ft, i) ==
  IF T.err # "ok" \/ i > current_dimension(T)
  THEN [t |-> T, queue |-> queue, ft |-> ft]
  ELSE LET n == fc_neighbor(T, s, i)
       IN IF ~is_full_cell(T, n)
          THEN [t |-> Fail(T, "bad_access"), queue |-> queue, ft |-> ft]
          ELSE IF ~get_visited(T, n)
          THEN Bind(set_visited(T, n, TRUE),
                    LAMBDA T1 :
                      IF ~PredicateFollows(T1, tp, <<s, i>>)
                      THEN [t |-> Fail(T1, "bad_access"), queue |-> queue,
                            ft |-> ft]
                      ELSE IF TraversalPredicate(T1, tp, <<s, i>>)
                      THEN GatherNeighbors(T1, s, tp, Append(queue, n), ft,
                                           i + 1)
                      ELSE GatherNeighbors(T1, s, tp, queue, <<s, i>>, i + 1))
          ELSE GatherNeighbors(T, s, tp, queue, ft, i + 1)

RECURSIVE GatherLoop(_, _, _, _)
GatherLoop(T, tp, queue, ft) ==
  IF T.err # "ok" \/ queue = <<>> THEN [t |-> T, ft |-> ft]
  ELSE Bind(GatherNeighbors([T EXCEPT !.out = Append(@, Head(queue))],
                            Head(queue), tp, Tail(queue), ft, 0),
            LAMBDA r : GatherLoop(r.t, tp, r.queue, r.ft))

\* the result is [t, ft]: the structure, with the emitted cells appended to
\* t.out, and the returned facet
gather_full_cells(T, start, tp) ==
  Bind(GatherLoop(set_visited(T, start, TRUE), tp, <<start>>, <<Null, 0>>),
       LAMBDA r : [t |-> clear_visited_marks(r.t, start), ft |-> r.ft])

incident_full_cells(T, f) ==
  gather_full_cells(T, f.full_cell, [kind |-> "incident", f |-> f]).t

incident_full_cells_vertex(T, v) ==
  IF v = Null THEN Fail(T, "precondition")
  ELSE IF ~is_vertex(T, v) THEN Fail(T, "bad_access")
  ELSE LET c == T.vertices[v].full_cell
       IN IF fc_index(T, c, v) = Bad THEN Fail(T, "bad_access")
          ELSE incident_full_cells(
                 T, [full_cell |-> c, indices |-> <<fc_index(T, c, v)>>])

star_full_cells(T, f) ==
  gather_full_cells(T, f.full_cell, [kind |-> "star", f |-> f]).t

\* ----------------------------------------------------------- hole insertion
RotorFuel == MaxCells * (AmbientDim + 1) * (AmbientDim + 1) + 1

\* lines 926-927: the rotor on a boundary facet; st is "bad_access" when a
\* handle cannot be followed and "diverge" when the loop never ends (the
\* structure does not change inside the loop, so a loop that outlasts every
\* rotor value repeats)
RECURSIVE RotorLoop(_, _, _)
RotorLoop(T, rot, fuel) ==
  IF ~FacetFollows(T, rot) THEN [st |-> "bad_access", rot |-> rot]
  ELSE IF is_boundary_facet(T, rot) THEN [st |-> "ok", rot |-> rot]
  ELSE IF fuel = 0 THEN [st |-> "diverge", rot |-> rot]
  ELSE RotorLoop(T, rotate_rotor(T, rot), fuel - 1)

\* the new cell takes no vertex of the old one
CopyVerticesNone(T, new_s, old_s, facet_index, i) == T

\* lines 901-906
RECURSIVE CopyVertices(_, _, _, _, _)
CopyVertices(T, new_s, old_s, facet_index, i) ==
  IF T.err # "ok" \/ i > current_dimension(T) THEN T
  ELSE IF i = facet_index
       THEN CopyVertices(T, new_s, old_s, facet_index, i + 1)
  ELSE CopyVertices(
         associate_vertex_with_full_cell(T, new_s, i, fc_vertex(T, old_s, i)),
         new_s, old_s, facet_index, i + 1)

\* lines 907-910: the new cell takes v and the neighbour across the facet
\* and is written to the output
PlaceNewCell(T, new_s, old_s, facet_index, v) ==
  Bind(associate_vertex_with_full_cell(T, new_s, facet_index, v),
       LAMBDA T3 :
         Bind(set_neighbors(T3, new_s, facet_index,
                            tds_neighbor(T3, old_s, facet_index),
                            tds_mirror_index(T3, old_s, facet_index)),
              LAMBDA T4 :
                IF T4.err = "ok" THEN [T4 EXCEPT !.out = Append(@, new_s)]
                ELSE T4))

RECURSIVE insert_in_tagged_hole(_, _, _)
RECURSIVE HoleNeighbors(_, _, _, _, _, _)
\* lines 928-943: the neighbour of new_s across slot i, found at rotor rot
HoleLink(T, v, old_s, facet_index, new_s, i, rot) ==
  LET outside == tds_neighbor(T, full_cell(rot), index_of_covertex(rot))
      inside == full_cell(rot)
      m == mirror_vertex(T, inside, index_of_covertex(rot))
      index == fc_index(T, outside, m)
      new_neighbor == fc_neighbor(T, outside, index)
  IN IF new_neighbor = Bad THEN Fail(T, "bad_access")
     ELSE IF new_neighbor = inside
     THEN Bind(insert_in_tagged_hole(
                 T, v, <<full_cell(rot), index_of_covertex(rot)>>),
               LAMBDA r :
                 set_neighbors(r.t, new_s, i, r.new_s,
                               index_of_second_covertex(rot)))
     ELSE set_neighbors(T, new_s, i, new_neighbor,
                        index_of_second_covertex(rot))


\* lines 917-945
HoleNeighbors(T, v, old_s, facet_index, new_s, i) ==
  IF T.err # "ok" \/ i > current_dimension(T) THEN T
  ELSE IF i = facet_index
       THEN HoleNeighbors(T, v, old_s, facet_index, new_s, i + 1)
  ELSE
    Bind(RotorLoop(T, <<old_s, i, facet_index>>, RotorFuel),
         LAMBDA rl :
           IF rl.st # "ok" THEN Fail(T, rl.st)
           ELSE HoleNeighbors(
                  HoleLink(T, v, old_s, facet_index, new_s, i, rl.rot),
                  v, old_s, facet_index, new_s, i + 1))

\* the result is [t, new_s]; every new cell is appended to t.out
insert_in_tagged_hole(T, v, f) ==
  IF T.err # "ok" THEN [t |-> T, new_s |-> Bad]
  ELSE IF ~FacetFollows(T, f)
       THEN [t |-> Fail(T, "bad_access"), new_s |-> Bad]
  ELSE IF ~is_boundary_facet(T, f)
       THEN [t |-> Fail(T, "precondition"), new_s |-> Bad]
  ELSE
    [t |-> HoleNeighbors(
             PlaceNewCell(
               CopyVertices(new_full_cell(T), NextCell(T), full_cell(f),
                            index_of_covertex(f), 0),
               NextCell(T), full_cell(f), index_of_covertex(f), v),
             v, full_cell(f), index_of_covertex(f), NextCell(T), 0),
     new_s |-> NextCell(T)]

\* lines 959-961 and 964: the range, walked in handle order
RECURSIVE MarkRange(_, _)
MarkRange(T, H) ==
  IF T.err # "ok" \/ H = {} THEN T
  ELSE MarkRange(set_visited(T, MinOf(H), TRUE), H \ {MinOf(H)})

\* the range loop stops after its first cell
delete_first_full_cell(T, H) ==
  IF T.err # "ok" \/ H = {} THEN T ELSE delete_full_cell(T, MinOf(H))

RECURSIVE delete_full_cells(_, _)
delete_full_cells(T, H) ==
  IF T.err # "ok" \/ H = {} THEN T
  ELSE delete_full_cells(delete_full_cell(T, MinOf(H)), H \ {MinOf(H)})

\* CGAL_expensive_precondition is compiled out unless CGAL_CHECK_EXPENSIVE
insert_in_hole(T, H, f) ==
  Bind(MarkRange(T, H),
       LAMBDA T1 :
         delete_full_cells(
           insert_in_tagged_hole(new_vertex(T1), NextVertex(T1), f).t, H))

\* lines 844-849: the copy of s takes v in slot i, becomes the cell of the
\* vertex it lost and the neighbour of s across slot i
CloneOne(T, s, v, new_s, i) ==
  Bind(associate_vertex_with_full_cell(new_full_cell_copy(T, s), new_s, i, v),
       LAMBDA T2 :
         Bind(set_full_cell(T2, fc_vertex(T2, s, i - 1), new_s),
              LAMBDA T3 :
                set_neighbors(T3, new_s, i, tds_neighbor(T3, s, i),
                              tds_mirror_index(T3, s, i))))

\* ------------------------------------------------- insertion in a cell
\* lines 843-850; fc holds the handles of the new cells
RECURSIVE CloneCells(_, _, _, _, _)
CloneCells(T, s, v, fc, i) ==
  IF T.err # "ok" \/ i > current_dimension(T) THEN [t |-> T, fc |-> fc]
  ELSE CloneCells(CloneOne(T, s, v, NextCell(T), i), s, v,
                  [fc EXCEPT ![i] = NextCell(T)], i + 1)

\* the new cells are not linked to each other
CrossLinkNone(T, fc, i, j) == T

\* lines 853-858
RECURSIVE CrossLink(_, _, _, _)
CrossLink(T, fc, i, j) ==
  IF T.err # "ok" \/ i > current_dimension(T) THEN T
  ELSE IF j > current_dimension(T) THEN CrossLink(T, fc, i + 1, 0)
  ELSE IF j = i THEN CrossLink(T, fc, i, j + 1)
  ELSE CrossLink(set_neighbors(T, fc[i], j, fc[j], i), fc, i, j + 1)

insert_in_full_cell(T, s) ==
  IF ~(0 < current_dimension(T)) \/ s = Null THEN Fail(T, "precondition")
  ELSE
    Bind(CloneCells(new_vertex(T), s, NextVertex(T), [i \in Slots |-> Null], 1),
         LAMBDA r :
           CrossLink(associate_vertex_with_full_cell(r.t, s, 0, NextVertex(T)),
                     [r.fc EXCEPT ![0] = s], 0, 0))

insert_in_face(T, f) ==
  Bind(incident_full_cells([T EXCEPT !.out = <<>>], f),
       LAMBDA T1 :
         insert_in_hole([T1 EXCEPT !.out = <<>>],
                        {T1.out[k] : k \in 1..Len(T1.out)},
                        <<f.full_cell, face_index(f, 0)>>))

\* lines 879-882: the two cells sharing the facet, and the facet of the first
\* one the hole insertion starts from
FacetHole(T, ft) ==
  {full_cell(ft), fc_neighbor(T, full_cell(ft), index_of_covertex(ft))}

FacetStart(T, ft) ==
  <<full_cell(ft), (index_of_covertex(ft) + 1) % current_dimension(T)>>

insert_in_facet(T, ft) ==
  IF Bad \in FacetHole(T, ft) THEN Fail(T, "bad_access")
  ELSE insert_in_hole(T, FacetHole(T, ft), FacetStart(T, ft))

\* ------------------------------------------------------------- removals
RECURSIVE DeleteVertices(_, _, _)
DeleteVertices(T, vs, i) ==
  IF T.err # "ok" \/ i > Len(vs) THEN T
  ELSE DeleteVertices(delete_vertex(T, vs[i]), vs, i + 1)

collapse_face(T, f) ==
  LET fd == feature_dimension(f)
  IN IF ~(1 <= fd /\ fd < current_dimension(T)) THEN Fail(T, "precondition")
     ELSE
       Bind(star_full_cells([T EXCEPT !.out = <<>>], f),
            LAMBDA T1 :
              DeleteVertices(
                insert_in_hole([T1 EXCEPT !.out = <<>>],
                               {T1.out[k] : k \in 1..Len(T1.out)},
                               <<f.full_cell, face_index(f, 0)>>),
                [i \in 1..(fd + 1) |-> face_vertex(T, f, i - 1)], 1))

\* lines 809-810
RECURSIVE Retarget(_, _, _)
Retarget(T, c, i) ==
  IF T.err # "ok" \/ i > current_dimension(T) THEN T
  ELSE Retarget(set_full_cell(T, fc_vertex(T, c, i), c), c, i + 1)

\* lines 813-818: v goes to the last slot, and the orientation is kept
UnconeSwap(T, c, v_idx, star) ==
  IF v_idx # current_dimension(T)
  THEN Bind(swap_vertices(T, c, v_idx, current_dimension(T)),
            LAMBDA T1a :
              IF ~has_vertex(T1a, c, star) \/ current_dimension(T1a) > 2
              THEN swap_vertices(T1a, c, current_dimension(T1a) - 2,
                                 current_dimension(T1a) - 1)
              ELSE T1a)
  ELSE T

\* lines 805-820: one incident cell loses v
UnconeOne(T, c, v_idx, star) ==
  Bind(UnconeSwap(
         IF ~has_vertex(T, c, star)
         THEN Retarget(delete_full_cell(T, fc_neighbor(T, c, v_idx)), c, 0)
         ELSE set_full_cell(T, star, c),
         c, v_idx, star),
       LAMBDA T2 :
         set_neighbor(set_vertex(T2, c, current_dimension(T2), Null),
                      c, current_dimension(T2), Null))

\* lines 803-822
RECURSIVE Uncone(_, _, _, _, _)
Uncone(T, simps, k, v, star) ==
  IF T.err # "ok" \/ k > Len(simps) THEN T
  ELSE IF fc_index(T, simps[k], v) = Bad THEN Fail(T, "bad_access")
  ELSE Uncone(UnconeOne(T, simps[k], fc_index(T, simps[k], v), star),
              simps, k + 1, v, star)

\* lines 786-797: the two infinite cells around the last finite cell s
UnconeSegment(T, inf1, inf2, v2, star) ==
  set_current_dimension(
    set_neighbors(
      associate_vertex_with_full_cell(
        associate_vertex_with_full_cell(
          set_neighbor(
            set_neighbor(
              set_vertex(set_vertex(T, inf1, 1, Null), inf1, 1, Null),
              inf2, 1, Null),
            inf2, 1, Null),
          inf1, 0, star),
        inf2, 0, v2),
      inf1, 0, inf2, 0),
    0)

remove_decrease_dimension(T, v, star) ==
  IF ~(current_dimension(T) >= 0 - 1) THEN Fail(T, "precondition")
  ELSE IF current_dimension(T) = 0 - 1 THEN clear(T)
  ELSE IF ~is_vertex(T, v) THEN Fail(T, "bad_access")
  ELSE IF current_dimension(T) = 0
  THEN Bind(delete_vertex(delete_full_cell(T, T.vertices[v].full_cell), v),
            LAMBDA T1 :
              IF ~is_vertex(T1, star) THEN Fail(T1, "bad_access")
              ELSE set_current_dimension(
                     set_neighbor(T1, T1.vertices[star].full_cell, 0, Null),
                     0 - 1))
  ELSE IF current_dimension(T) = 1
  THEN LET s0 == T.vertices[v].full_cell
           s == IF has_vertex(T, s0, star)
                THEN fc_neighbor(T, s0, fc_index(T, s0, star)) ELSE s0
           inf1 == fc_neighbor(T, s, 0)
           inf2 == fc_neighbor(T, s, 1)
           iv == fc_index(T, s, v)
           v2 == IF iv = Bad THEN Bad ELSE fc_vertex(T, s, 1 - iv)
       IN IF ~is_full_cell(T, s0) \/ ~is_full_cell(T, s) \/ v2 = Bad
          THEN Fail(T, "bad_access")
          ELSE UnconeSegment(delete_full_cell(delete_vertex(T, v), s),
                             inf1, inf2, v2, star)
  ELSE
    Bind(incident_full_cells_vertex([T EXCEPT !.out = <<>>], v),
         LAMBDA T1 :
           Bind(Uncone([T1 EXCEPT !.out = <<>>], T1.out, 1, v, star),
                LAMBDA T2 :
                  delete_vertex(
                    set_current_dimension(T2, current_dimension(T2) - 1), v)))

\* ------------------------------------------------------------ incident faces
LexLess(a, b) ==
  \E i \in 1..Len(a) : a[i] < b[i] /\ \A j \in 1..(i - 1) : a[j] = b[j]

\* std::sort with std::less on handles
RECURSIVE SortHandles(_)
SortHandles(S) ==
  IF S = {} THEN <<>> ELSE <<MinOf(S)>> \o SortHandles(S \ {MinOf(S)})

RECURSIVE SortLex(_)
SortLex(S) ==
  IF S = {} THEN <<>>
  ELSE LET m == CHOOSE a \in S : \A b \in S \ {a} : LexLess(a, b)
       IN <<m>> \o SortLex(S \ {m})

\* Combination_enumerator(k, lo, hi): the k-subsets of lo..hi as increasing
\* sequences, in lexicographic order
Combinations(k, lo, hi) ==
  SortLex({SortHandles(c) : c \in {c \in SUBSET (lo..hi) : Cardinality(c) = k}})

\* lines 688-706: the vertices of s in the order the faces are named from,
\* and the position of v in it
PositionOf(seq, v) == MinOf({i \in 1..Len(seq) : seq[i] = v}) - 1

RECURSIVE StdSort(_)
StdSort(q) ==
  IF q = <<>> THEN <<>>
  ELSE LET n == CHOOSE i \in 1..Len(q) : \A j \in 1..Len(q) : q[i] <= q[j]
       IN <<q[n]>> \o StdSort([i \in 1..(Len(q) - 1) |->
                                 IF i < n THEN q[i] ELSE q[i + 1]])

SortedVertices(T, s, v, upper_faces) ==
  LET all == [i \in 1..(current_dimension(T) + 1) |-> fc_vertex(T, s, i - 1)]
      at == PositionOf(all, v) + 1
  IN IF upper_faces THEN StdSort(all)
     ELSE <<v>> \o StdSort(Tail([all EXCEPT ![at] = all[1]]))

\* the key of Compare_faces_with_common_first_vertex: the vertices named by
\* indices 1..k of the face
FaceKey(T, f) ==
  [i \in 1..feature_dimension(f) |-> face_vertex(T, f, i)]

\* lines 707-725 for one cell whose sorted vertices are vs, v at position
\* v_idx: the candidate faces in enumeration order
FacesFrom(T, s, vs, v_idx, k) ==
  IF v_idx + k > current_dimension(T) THEN <<>>
  ELSE Bind(Combinations(k, v_idx + 1, current_dimension(T)),
            LAMBDA combos :
              [n \in 1..Len(combos) |->
                 [full_cell |-> s,
                  indices |-> <<v_idx>> \o
                    [i \in 1..k |-> fc_index(T, s, vs[combos[n][i] + 1])]]])

CellFaces(T, s, v, k, upper_faces) ==
  Bind(SortedVertices(T, s, v, upper_faces),
       LAMBDA vs : FacesFrom(T, s, vs, PositionOf(vs, v), k))

\* std::set::insert: a face whose key is already present is dropped
RECURSIVE InsertFaces(_, _, _, _)
InsertFaces(T, face_set, faces, n) ==
  IF n > Len(faces) THEN face_set
  ELSE InsertFaces(
         T,
         IF \E g \in face_set : FaceKey(T, g) = FaceKey(T, faces[n])
         THEN face_set ELSE face_set \cup {faces[n]},
         faces, n + 1)

RECURSIVE FacesOfCells(_, _, _, _, _, _, _)
FacesOfCells(T, simps, n, v, k, upper_faces, face_set) ==
  IF n > Len(simps) THEN face_set
  ELSE FacesOfCells(T, simps, n + 1, v, k, upper_faces,
                    InsertFaces(T, face_set,
                                CellFaces(T, simps[n], v, k, upper_faces), 1))

RECURSIVE EmitFaces(_, _)
EmitFaces(T, face_set) ==
  IF face_set = {} THEN <<>>
  ELSE LET f == CHOOSE a \in face_set :
                  \A b \in face_set \ {a} : LexLess(FaceKey(T, a), FaceKey(T, b))
       IN <<f>> \o EmitFaces(T, face_set \ {f})

incident_faces(T, v, k, upper_faces) ==
  IF ~(0 < k) THEN Fail(T, "precondition")
  ELSE IF k >= current_dimension(T) THEN T
  ELSE Bind(incident_full_cells_vertex([T EXCEPT !.out = <<>>], v),
            LAMBDA T1 :
              IF T1.err # "ok" THEN T1
              ELSE IF \E n \in 1..Len(T1.out) :
                        \A i \in 0..current_dimension(T1) :
                          fc_vertex(T1, T1.out[n], i) # v
              THEN Fail(T1, "bad_access")
              ELSE [T1 EXCEPT !.out = EmitFaces(T1,
                      FacesOfCells(T1, T1.out, 1, v, k, upper_faces, {}))])

\* ------------------------------------------------------------------ validity
\* Triangulation_ds_vertex::is_valid
vertex_is_valid(T, v) == T.vertices[v].full_cell # Null

\* Triangulation_ds_full_cell::is_valid: the vertices fill a prefix of the slots
fc_is_valid(T, s) ==
  \A i \in Slots : \A j \in Slots :
    (i < j /\ T.full_cells[s].vertex[j] # Null)
      => T.full_cells[s].vertex[i] # Null

\* every handle is_valid dereferences is live and every slot it reads is in
\* range
is_valid_follows(T) ==
  /\ \A v \in LiveVertices(T) :
       T.vertices[v].full_cell = Null \/ is_full_cell(T, T.vertices[v].full_cell)
  /\ T.dcur >= 0 =>
       \A s \in LiveCells(T) : \A i \in 0..T.dcur :
         LET t == T.full_cells[s].neighbor[i]
         IN t = Null \/ (is_full_cell(T, t)
                         /\ T.full_cells[s].mirror_index[i] \in 0..T.dcur)

is_valid(T) ==
  LET fake_dcur == IF T.dcur > 0 THEN T.dcur ELSE 0
  IN /\ T.dcur = 0 - 2 =>
          (number_of_vertices(T) = 0 /\ number_of_full_cells(T) = 0)
     /\ T.dcur = 0 - 1 =>
          (number_of_vertices(T) = 1 /\ number_of_full_cells(T) = 1)
     /\ \A v \in LiveVertices(T) :
          /\ vertex_is_valid(T, v)
          /\ \E i \in 0..fake_dcur :
               T.full_cells[T.vertices[v].full_cell].vertex[i] = v
     /\ T.dcur >= 0 =>
          /\ \A s \in LiveCells(T) :
               /\ fc_is_valid(T, s)
               /\ \A i \in 0..T.dcur : \A j \in (i + 1)..T.dcur :
                    T.full_cells[s].vertex[i] # T.full_cells[s].vertex[j]
          /\ \A s \in LiveCells(T) : \A i \in 0..T.dcur :
               LET t == T.full_cells[s].neighbor[i]
                   l == T.full_cells[s].mirror_index[i]
               IN /\ t # Null
                  /\ l \in 0..T.dcur
                  /\ s = T.full_cells[t].neighbor[l]
                  /\ i = T.full_cells[t].mirror_index[l]
                  /\ \A j \in (0..T.dcur) \ {i} :
                       \E k \in (0..T.dcur) \ {l} :
                         T.full_cells[s].vertex[j] = T.full_cells[t].vertex[k]

\* lines 1188-1226 for the slot i of the cell s: "false" when is_valid
\* returns false there, "precondition" when neighbor(t, l) is called with a
\* mirror index out of range
SlotOutcome(T, s, i) ==
  LET t == T.full_cells[s].neighbor[i]
      l == T.full_cells[s].mirror_index[i]
  IN IF t = Null THEN "false"
     ELSE IF ~check_range(T, l) THEN "precondition"
     ELSE IF s # T.full_cells[t].neighbor[l]
             \/ i # T.full_cells[t].mirror_index[l] THEN "false"
     ELSE IF \A j \in (0..T.dcur) \ {i} :
               \E k \in (0..T.dcur) \ {l} :
                 T.full_cells[s].vertex[j] = T.full_cells[t].vertex[k]
     THEN "true" ELSE "false"

\* is_valid as a call: "true", "false", or "precondition" when the loop on
\* the neighbours stops on a failed precondition before it returns
is_valid_outcome(T) ==
  IF is_valid(T) THEN "true"
  ELSE LET fake_dcur == IF T.dcur > 0 THEN T.dcur ELSE 0
           early ==
             \/ T.dcur = 0 - 2 /\ ~(number_of_vertices(T) = 0
                                    /\ number_of_full_cells(T) = 0)
             \/ T.dcur = 0 - 1 /\ ~(number_of_vertices(T) = 1
                                    /\ number_of_full_cells(T) = 1)
             \/ \E v \in LiveVertices(T) :
                  \/ ~vertex_is_valid(T, v)
                  \/ \A i \in 0..fake_dcur :
                       T.full_cells[T.vertices[v].full_cell].vertex[i] # v
             \/ T.dcur < 0
             \/ \E c \in LiveCells(T) :
                  \/ ~fc_is_valid(T, c)
                  \/ \E i \in 0..T.dcur : \E j \in (i + 1)..T.dcur :
                       T.full_cells[c].vertex[i] = T.full_cells[c].vertex[j]
           stops == {p \in LiveCells(T) \X (0..T.dcur) :
                       SlotOutcome(T, p[1], p[2]) # "true"}
           first == CHOOSE p \in stops :
                      \A q \in stops :
                        p[1] < q[1] \/ (p[1] = q[1] /\ p[2] <= q[2])
       IN IF early THEN "false" ELSE SlotOutcome(T, first[1], first[2])

\* ------------------------------------------------------------- the machine
State ==
  [dcur |-> dcur, vertices |-> vertices, full_cells |-> full_cells,
   err |-> "ok", out |-> <<>>]

\* the call o turned the structure into T and returned v, ft and the output
\* written to T.out; pre keeps the structure the call started from
Becomes(T, o, v, ft) ==
  /\ T.err # "capacity"
  /\ dcur' = T.dcur
  /\ vertices' = T.vertices
  /\ full_cells' = T.full_cells
  /\ err' = T.err
  /\ op' = o
  /\ ret' = [v |-> v, out |-> T.out, ft |-> ft]
  /\ pre' = State
  /\ budget' = budget - 1
  /\ used' = used \cup {o.name}

Gathered(r, o) == Becomes(r.t, o, Null, r.ft)

NoFacet == <<Null, 0>>

Init ==
  /\ dcur = 0 - 2
  /\ vertices = [v \in VH |-> BlankVertex]
  /\ full_cells = [s \in FCH |-> BlankCell]
  /\ err = "ok"
  /\ op = [name |-> "construct"]
  /\ ret = [v |-> Null, out |-> <<>>, ft |-> NoFacet]
  /\ pre = EmptyTDS
  /\ budget = MaxOps
  /\ used = {}

Running == err = "ok" /\ budget > 0
Room == number_of_vertices(State) < MaxVertices

\* faces of the live cells: a cell, a non-empty set of its slots, and the
\* slot listed first
RECURSIVE SeqOfSet(_)
SeqOfSet(S) == IF S = {} THEN <<>> ELSE <<MinOf(S)>> \o SeqOfSet(S \ {MinOf(S)})

Faces(T) ==
  UNION {{[full_cell |-> sI[1], indices |-> <<i0>> \o SeqOfSet(sI[2] \ {i0})] :
            i0 \in sI[2]} :
         sI \in LiveCells(T) \X SUBSET (0..current_dimension(T))}

Facets(T) == LiveCells(T) \X (0..current_dimension(T))

\* the cells reachable from s inside H across neighbour slots
RECURSIVE Reach(_, _, _)
Reach(T, H, R) ==
  LET R2 == R \cup {n \in H : \E s \in R : \E i \in 0..current_dimension(T) :
                                T.full_cells[s].neighbor[i] = n}
  IN IF R2 = R THEN R ELSE Reach(T, H, R2)

Connected(T, H) == H # {} /\ Reach(T, H, {MinOf(H)}) = H

BoundaryFacets(T, H) ==
  {f \in Facets(T) : f[1] \in H /\ T.full_cells[f[1]].neighbor[f[2]] \notin H}

\* the inputs of remove_decrease_dimension: v and star are distinct vertices,
\* every cell contains v or star, and from dimension 1 on some cell contains
\* both
Uncones(T, v, star) ==
  \/ current_dimension(T) = 0 - 1
  \/ /\ v # star
     /\ \A c \in LiveCells(T) :
          \E i \in 0..current_dimension(T) :
            T.full_cells[c].vertex[i] \in {v, star}
     /\ current_dimension(T) >= 1 =>
          \E c \in LiveCells(T) :
            {v, star} \subseteq {T.full_cells[c].vertex[i] :
                                   i \in 0..current_dimension(T)}

\* a star handed to the empty structure, which has no vertex to name
NoVertexYet == IF dcur = 0 - 2 THEN {1} ELSE {}

\* the mutators
InsertIncreaseDimension ==
  /\ Running /\ Room
  /\ \E star \in LiveVertices(State) \cup {Null} \cup NoVertexYet :
       Becomes(insert_increase_dimension(State, star),
               [name |-> "insert_increase_dimension", star |-> star],
               NextVertex(State), NoFacet)

InsertInFullCell ==
  /\ Running /\ Room
  /\ \E s \in LiveCells(State) :
       Becomes(insert_in_full_cell(State, s),
               [name |-> "insert_in_full_cell", s |-> s],
               NextVertex(State), NoFacet)

InsertInFace ==
  /\ Running /\ Room /\ dcur >= 1
  /\ \E f \in Faces(State) :
       Becomes(insert_in_face(State, f), [name |-> "insert_in_face", f |-> f],
               NextVertex(State), NoFacet)

InsertInFacet ==
  /\ Running /\ Room /\ dcur >= 1
  /\ \E ft \in Facets(State) :
       Becomes(insert_in_facet(State, ft),
               [name |-> "insert_in_facet", ft |-> ft],
               NextVertex(State), NoFacet)

InsertInHole ==
  /\ Running /\ Room /\ dcur >= 1
  /\ \E H \in SUBSET LiveCells(State) :
       /\ Connected(State, H)
       /\ \E f \in BoundaryFacets(State, H) :
            Becomes(insert_in_hole(State, H, f),
                    [name |-> "insert_in_hole", H |-> H, f |-> f],
                    NextVertex(State), NoFacet)

CollapseFace ==
  /\ Running /\ dcur >= 2
  /\ \E f \in Faces(State) :
       /\ 1 <= feature_dimension(f) /\ feature_dimension(f) < dcur
       /\ Becomes(collapse_face(State, f),
                  [name |-> "collapse_face", f |-> f],
                  NextVertex(State), NoFacet)

RemoveDecreaseDimension ==
  /\ Running
  /\ \E v \in LiveVertices(State), star \in LiveVertices(State) :
       /\ Uncones(State, v, star)
       /\ Becomes(remove_decrease_dimension(State, v, star),
                  [name |-> "remove_decrease_dimension",
                   v |-> v, star |-> star],
                  Null, NoFacet)

\* the queries; the predicate of gather_full_cells accepts the facets whose
\* covertex slot is in I
GatherFullCells ==
  /\ Running /\ dcur >= 0
  /\ \E start \in LiveCells(State), I \in SUBSET (0..dcur) :
       Gathered(gather_full_cells(
                  State, start,
                  [kind |-> "slots",
                   facets |-> {f \in Facets(State) : f[2] \in I}]),
                [name |-> "gather_full_cells", start |-> start, I |-> I])

IncidentFullCells ==
  /\ Running /\ dcur >= 0
  /\ \E f \in Faces(State) :
       Becomes(incident_full_cells(State, f),
               [name |-> "incident_full_cells", f |-> f], Null, NoFacet)

IncidentFullCellsVertex ==
  /\ Running /\ dcur >= 0
  /\ \E v \in LiveVertices(State) :
       Becomes(incident_full_cells_vertex(State, v),
               [name |-> "incident_full_cells_vertex", v |-> v],
               Null, NoFacet)

StarFullCells ==
  /\ Running /\ dcur >= 0
  /\ \E f \in Faces(State) :
       Becomes(star_full_cells(State, f), [name |-> "star", f |-> f],
               Null, NoFacet)

IncidentFaces ==
  /\ Running /\ dcur >= 0
  /\ \E v \in LiveVertices(State), k \in 1..AmbientDim,
        upper_faces \in BOOLEAN :
       Becomes(incident_faces(State, v, k, upper_faces),
               [name |-> "incident_faces", v |-> v, k |-> k,
                upper_faces |-> upper_faces],
               Null, NoFacet)

Next ==
  \/ InsertIncreaseDimension
  \/ InsertInFullCell
  \/ InsertInFace
  \/ InsertInFacet
  \/ InsertInHole
  \/ CollapseFace
  \/ RemoveDecreaseDimension
  \/ GatherFullCells
  \/ IncidentFullCells
  \/ IncidentFullCellsVertex
  \/ StarFullCells
  \/ IncidentFaces

Spec == Init /\ [][Next]_vars

\* ---------------------------------------------- triangulations built by calls
\* n successive insert_increase_dimension calls, the star being the first or
\* the last vertex
RECURSIVE Raise(_, _, _)
Raise(T, n, last) ==
  IF n = 0 THEN T
  ELSE Raise(insert_increase_dimension(
               T, IF LiveVertices(T) = {} THEN Null
                  ELSE IF last THEN NextVertex(T) - 1
                  ELSE MinOf(LiveVertices(T))),
             n - 1, last)

\* k successive insert_in_full_cell calls on the first cell
RECURSIVE Grow(_, _)
Grow(T, k) ==
  IF k = 0 THEN T
  ELSE Grow(insert_in_full_cell(T, MinOf(LiveCells(T))), k - 1)

Built(d, k, last) == Grow(Raise(EmptyTDS, d + 2, last), k)

Builds ==
  {b \in [d : (0 - 2)..AmbientDim, k : 0..(MaxVertices - 3),
          last : BOOLEAN] :
     /\ b.k > 0 => b.d >= 1
     /\ b.last => b.d >= 1
     /\ b.d + 2 + b.k < MaxVertices}

StartsAs(T, b) ==
  /\ dcur = T.dcur
  /\ vertices = T.vertices
  /\ full_cells = T.full_cells
  /\ err = T.err
  /\ op = [name |-> "build", b |-> b]
  /\ ret = [v |-> Null, out |-> <<>>, ft |-> NoFacet]
  /\ pre = T
  /\ budget = MaxOpsBuilt
  /\ used = {}

InitBuilt == \E b \in Builds : StartsAs(Built(b.d, b.k, b.last), b)

SpecBuilt == InitBuilt /\ [][Next]_vars

\* remove_decrease_dimension on any two distinct vertices of a triangulation built,
\* the vertex an apex or not
RemoveAnyVertex ==
  /\ Running
  /\ \E v \in LiveVertices(State) : \E star \in LiveVertices(State) \ {v} :
       Becomes(remove_decrease_dimension(State, v, star),
               [name |-> "remove_decrease_dimension", v |-> v, star |-> star],
               Null, NoFacet)

SpecRemoval == InitBuilt /\ [][RemoveAnyVertex]_vars

\* the rotors of T: a cell, a covertex slot and a second covertex slot
Rotors(T) ==
  {r \in LiveCells(T) \X (0..current_dimension(T))
          \X (0..current_dimension(T)) : r[2] # r[3]}

\* rotate_rotor applied to a rotor of a triangulation built, and then to
\* the rotor it returned; ret.out lists the rotors, the first one included
StartRotor ==
  /\ Running /\ op.name = "build" /\ dcur >= 1
  /\ \E r \in Rotors(State) :
       /\ op' = [name |-> "rotate_rotor", f |-> r]
       /\ ret' = [v |-> Null, out |-> <<r, rotate_rotor(State, r)>>,
                  ft |-> NoFacet]
       /\ pre' = State
       /\ used' = used \cup {"rotate_rotor"}
       /\ UNCHANGED <<dcur, vertices, full_cells, err, budget>>

TurnRotor ==
  /\ Running /\ op.name = "rotate_rotor"
  /\ Len(ret.out) <= MaxTurns
  /\ ret' = [ret EXCEPT
               !.out = Append(@, rotate_rotor(State, @[Len(@)]))]
  /\ UNCHANGED <<dcur, vertices, full_cells, err, op, pre, budget, used>>

NextRotor == StartRotor \/ TurnRotor

SpecRotor == InitBuilt /\ [][NextRotor]_vars

\* collapse_face on a face of the vertex insert_in_face has just returned,
\* a full cell or a facet
CollapseNewFace ==
  /\ err = "ok" /\ op.name = "insert_in_face"
  /\ \E f \in Faces(State) :
       /\ feature_dimension(f) >= 1
       /\ feature_dimension(f) >= dcur - 1
       /\ ret.v \in FaceVertices(State, f)
       /\ Becomes(collapse_face(State, f),
                  [name |-> "collapse_face", f |-> f],
                  NextVertex(State), NoFacet)

NextReinsert == InsertInFace \/ CollapseNewFace

\* the triangulations of dimension 1 and more with at most one vertex
\* inserted after the last dimension increase
InitReinsert ==
  \E b \in {a \in Builds : a.d >= 1 /\ a.k <= 1} :
    StartsAs(Built(b.d, b.k, b.last), b)

SpecReinsert == InitReinsert /\ [][NextReinsert]_vars

\* dimension increases from the empty structure, and the vertex a dimension
\* increase has just returned removed again with the same star
InitCycle ==
  /\ dcur = 0 - 2
  /\ vertices = [v \in VH |-> BlankVertex]
  /\ full_cells = [s \in FCH |-> BlankCell]
  /\ err = "ok"
  /\ op = [name |-> "construct"]
  /\ ret = [v |-> Null, out |-> <<>>, ft |-> NoFacet]
  /\ pre = EmptyTDS
  /\ budget = MaxCycleOps
  /\ used = {}

RemoveLast ==
  /\ Running /\ op.name = "insert_increase_dimension"
  /\ Becomes(remove_decrease_dimension(State, ret.v, op.star),
             [name |-> "remove_decrease_dimension",
              v |-> ret.v, star |-> op.star],
             Null, NoFacet)

NextCycle == InsertIncreaseDimension \/ RemoveLast

SpecCycle == InitCycle /\ [][NextCycle]_vars

\* the low-level mutators and is_valid on the small triangulations built:
\* the pools hold at most MaxLowPool elements, the dimension set is at most
\* MaxLowDim, and a triangulation of dimension 1 is followed for two calls
LowBuilds == {b \in Builds : b.d <= MaxLowDim /\ b.k = 0 /\ ~b.last}

LowStartsAs(T, b) ==
  /\ dcur = T.dcur
  /\ vertices = T.vertices
  /\ full_cells = T.full_cells
  /\ err = T.err
  /\ op = [name |-> "build", b |-> b]
  /\ ret = [v |-> Null, out |-> <<>>, ft |-> NoFacet]
  /\ pre = T
  /\ budget = IF b.d >= 1 THEN 2 ELSE MaxLowOps
  /\ used = {}

InitLow == \E b \in LowBuilds : LowStartsAs(Built(b.d, b.k, b.last), b)

LowSlots == 0..MaxLowDim

\* the indices handed to set_neighbors, one below and one above the slots
LowIndices == (0 - 1)..(MaxLowDim + 1)

SetCurrentDimension ==
  /\ Running
  /\ \E d \in (0 - 2)..MaxLowDim :
       Becomes(set_current_dimension(State, d),
               [name |-> "set_current_dimension", d |-> d], Null, NoFacet)

NewVertex ==
  /\ Running /\ number_of_vertices(State) < MaxLowPool
  /\ Becomes(new_vertex(State), [name |-> "new_vertex"],
             NextVertex(State), NoFacet)

NewFullCell ==
  /\ Running /\ number_of_full_cells(State) < MaxLowPool
  /\ Becomes(new_full_cell(State), [name |-> "new_full_cell"],
             NextCell(State), NoFacet)

AssociateVertexWithFullCell ==
  /\ Running
  /\ \E c \in LiveCells(State) \cup {Null}, i \in LowSlots,
        v \in LiveVertices(State) \cup {Null} :
       Becomes(associate_vertex_with_full_cell(State, c, i, v),
               [name |-> "associate_vertex_with_full_cell",
                s |-> c, i |-> i, v |-> v],
               Null, NoFacet)

SetNeighbors ==
  /\ Running
  /\ \E c \in LiveCells(State) \cup {Null}, i \in LowIndices,
        t \in LiveCells(State) \cup {Null}, j \in LowIndices :
       Becomes(set_neighbors(State, c, i, t, j),
               [name |-> "set_neighbors", s |-> c, i |-> i, t |-> t, j |-> j],
               Null, NoFacet)

\* is_valid is asked once, after the last mutator call too
IsValid ==
  /\ err = "ok" /\ op.name # "is_valid"
  /\ Becomes(IF is_valid_outcome(State) = "precondition"
             THEN Fail(State, "precondition") ELSE State,
             [name |-> "is_valid"], is_valid_outcome(State) = "true", NoFacet)

NextLow ==
  \/ SetCurrentDimension
  \/ NewVertex
  \/ NewFullCell
  \/ AssociateVertexWithFullCell
  \/ SetNeighbors
  \/ IsValid

SpecLow == InitLow /\ [][NextLow]_vars

\* ------------------------------------------------------- input / output
\* a stream is a sequence of integers; the vertices and the cells carry no
\* other information, so that writing or reading one moves no token

\* index_of_vertex[h], index_of_full_cell[h]: the rank of h in the iteration
\* order, counted from 0; std::map::operator[] gives 0 for a handle that
\* was never entered
IndexIn(seq, h) ==
  IF \E k \in 1..Len(seq) : seq[k] = h
  THEN (CHOOSE k \in 1..Len(seq) : seq[k] = h) - 1
  ELSE 0

\* lines 1360-1410; w is the number of slots written for a cell
write_full_cells(T, index_of_vertex) ==
  LET index_of_full_cell == SeqOfSet(LiveCells(T))
      m == Len(index_of_full_cell)
      w == current_dimension(T) + 1
  IN <<m>>
     \o [q \in 1..(m * w) |->
           IndexIn(index_of_vertex,
                   T.full_cells[index_of_full_cell[((q - 1) \div w) + 1]]
                     .vertex[(q - 1) % w])]
     \o [q \in 1..(m * w) |->
           IndexIn(index_of_full_cell,
                   T.full_cells[index_of_full_cell[((q - 1) \div w) + 1]]
                     .neighbor[(q - 1) % w])]

\* operator<<, lines 1470-1515
write_tds(T) ==
  LET n == number_of_vertices(T)
  IN <<current_dimension(T), n>>
     \o (IF n = 0 THEN <<>>
         ELSE write_full_cells(T, SeqOfSet(LiveVertices(T))))

\* is >> x on the reader r = [s, p, fail]: the next token, or the stream
\* fails and x keeps the value old it had
Extract(r, old) ==
  IF ~r.fail /\ r.p <= Len(r.s)
  THEN [r |-> [r EXCEPT !.p = @ + 1], x |-> r.s[r.p]]
  ELSE [r |-> [r EXCEPT !.fail = TRUE], x |-> old]

\* v[index] of a std::vector v of handles: outside the vector the read is
\* undefined, it ends the program (Bad) or gives the handle wild
At(v, index, wild) ==
  IF 0 <= index /\ index < Len(v) THEN v[index + 1] ELSE wild

\* lines 1303-1310: the vertices of the cell s; R = [t, r, index, cells]
RECURSIVE ReadVertices(_, _, _, _, _)
ReadVertices(R, s, j, vertices_read, wild) ==
  IF R.t.err # "ok" \/ j > current_dimension(R.t) THEN R
  ELSE Bind(Extract(R.r, R.index),
            LAMBDA g :
              ReadVertices(
                [R EXCEPT !.r = g.r, !.index = g.x,
                          !.t = set_vertex(R.t, s, j,
                                           At(vertices_read, g.x, wild))],
                s, j + 1, vertices_read, wild))

\* lines 1299-1314
RECURSIVE ReadCells(_, _, _, _, _)
ReadCells(R, i, m, vertices_read, wild) ==
  IF R.t.err # "ok" \/ i >= m THEN R
  ELSE LET s == NextCell(R.t)
       IN ReadCells(
            ReadVertices([R EXCEPT !.t = new_full_cell(R.t),
                                   !.cells = Append(@, s)],
                         s, 0, vertices_read, wild),
            i + 1, m, vertices_read, wild)

\* lines 1321-1325
RECURSIVE ReadNeighbors(_, _, _, _)
ReadNeighbors(R, i, j, wild) ==
  IF R.t.err # "ok" \/ j > current_dimension(R.t) THEN R
  ELSE Bind(Extract(R.r, R.index),
            LAMBDA g :
              ReadNeighbors(
                [R EXCEPT !.r = g.r, !.index = g.x,
                          !.t = set_neighbor(R.t, R.cells[i + 1], j,
                                             At(R.cells, g.x, wild))],
                i, j + 1, wild))

\* lines 1319-1327
RECURSIVE ReadAllNeighbors(_, _, _, _)
ReadAllNeighbors(R, i, m, wild) ==
  IF R.t.err # "ok" \/ i >= m THEN R
  ELSE ReadAllNeighbors(ReadNeighbors(R, i, 0, wild), i + 1, m, wild)

\* lines 1348-1351: the first slot of n whose neighbour is s; the search
\* leaves the slots of n when there is none, an undefined read
RECURSIVE SlotBackTo(_, _, _, _)
SlotBackTo(T, n, s, k) ==
  IF k > AmbientDim THEN Bad
  ELSE IF T.full_cells[n].neighbor[k] = s THEN k
  ELSE SlotBackTo(T, n, s, k + 1)

\* lines 1343-1354 for the cell s
RECURSIVE MirrorSlots(_, _, _, _)
MirrorSlots(T, s, j, wild) ==
  IF T.err # "ok" \/ j > current_dimension(T) THEN T
  ELSE IF T.full_cells[s].mirror_index[j] # 0 - 1
       THEN MirrorSlots(T, s, j + 1, wild)
  ELSE LET n == T.full_cells[s].neighbor[j]
       IN IF ~is_full_cell(T, n) THEN Fail(T, "bad_access")
          ELSE LET k == SlotBackTo(T, n, s, 0)
               IN IF k = Bad
                  THEN (IF wild = Bad THEN Fail(T, "bad_access")
                        ELSE MirrorSlots(T, s, j + 1, wild))
                  ELSE MirrorSlots(
                         set_mirror_index(set_mirror_index(T, s, j, k),
                                          n, k, j),
                         s, j + 1, wild)

\* lines 1340-1355
RECURSIVE ComputeMirrors(_, _, _, _)
ComputeMirrors(T, cells, i, wild) ==
  IF T.err # "ok" \/ i > Len(cells) THEN T
  ELSE ComputeMirrors(MirrorSlots(T, cells[i], 0, wild), cells, i + 1, wild)

\* read_full_cells, lines 1282-1357; m and index are not initialized, so a
\* failed read leaves the value junk in them; the result is [t, fail]
read_full_cells(T, r, vertices_read, junk, wild) ==
  Bind(Extract(r, junk),
       LAMBDA g :
         LET m == g.x
         IN Bind(ReadCells([t |-> T, r |-> g.r, index |-> junk,
                            cells |-> <<>>],
                           0, m, vertices_read, wild),
                 LAMBDA R1 :
                   Bind(ReadAllNeighbors(R1, 0, m, wild),
                        LAMBDA R2 :
                          [t |-> ComputeMirrors(R2.t, R2.cells, 1, wild),
                           fail |-> R2.r.fail])))

\* lines 1454-1464: n vertices created, in the order of their handles
RECURSIVE NewVertices(_, _, _)
NewVertices(T, n, made) ==
  IF T.err # "ok" \/ Len(made) >= n THEN [t |-> T, made |-> made]
  ELSE NewVertices(new_vertex(T), n, Append(made, NextVertex(T)))

\* operator>>, lines 1417-1468, into the structure T; cd and n are not
\* initialized either
read_tds(T, is, junk, wild) ==
  Bind(Extract([s |-> is, p |-> 1, fail |-> FALSE], junk),
       LAMBDA g1 :
         Bind(Extract(g1.r, junk),
              LAMBDA g2 :
                LET cd == g1.x
                    n == g2.x
                IN IF cd > AmbientDim
                   THEN [t |-> Fail(T, "precondition"), fail |-> g2.r.fail]
                   ELSE
                     Bind(set_current_dimension(clear(T), cd),
                          LAMBDA T1 :
                            IF T1.err # "ok" \/ n = 0
                            THEN [t |-> T1, fail |-> g2.r.fail]
                            ELSE
                              Bind(NewVertices(T1, n, <<>>),
                                   LAMBDA V :
                                     read_full_cells(V.t, g2.r, V.made,
                                                     junk, wild)))))

\* the values an integer that was never written can hold, and the outcomes
\* of reading outside a vector
JunkValues == {0, 1, 2}
WildHandles == {Bad, Null, 1}

\* the streams that differ from the stream os by a truncation or by one
\* token, a count or an index, raised by one or made the number of cells
Damaged(os) ==
  {SubSeq(os, 1, k) : k \in 0..(Len(os) - 1)}
    \cup UNION {{[os EXCEPT ![q] = os[q] + 1],
                  [os EXCEPT ![q] = MaxCells]} : q \in 2..Len(os)}

\* the structure becomes T
Holds(T) ==
  /\ T.err # "capacity"
  /\ dcur' = T.dcur
  /\ vertices' = T.vertices
  /\ full_cells' = T.full_cells
  /\ err' = T.err

\* operator<< writes the structure to a stream, kept in ret.out
Write ==
  /\ err = "ok" /\ op.name = "build"
  /\ op' = [name |-> "operator<<"]
  /\ ret' = [v |-> Null, out |-> write_tds(State), ft |-> NoFacet]
  /\ pre' = State
  /\ used' = used \cup {"operator<<"}
  /\ UNCHANGED <<dcur, vertices, full_cells, err, budget>>

\* the stream is damaged on its way
Damage ==
  /\ op.name = "operator<<"
  /\ \E is \in Damaged(ret.out) :
       /\ op' = [name |-> "damage"]
       /\ ret' = [ret EXCEPT !.out = is]
  /\ used' = used \cup {"damage"}
  /\ UNCHANGED <<dcur, vertices, full_cells, err, pre, budget>>

\* operator>> reads the stream into the structure; pre is the structure
\* that was written
Read ==
  /\ err = "ok" /\ op.name \in {"operator<<", "damage"}
  /\ \E junk \in JunkValues, wild \in WildHandles :
       LET got == read_tds(State, ret.out, junk, wild)
       IN /\ Holds(got.t)
          /\ op' = [name |-> "operator>>", is |-> ret.out, fail |-> got.fail]
  /\ ret' = [ret EXCEPT !.out = <<>>]
  /\ used' = used \cup {"operator>>"}
  /\ UNCHANGED <<pre, budget>>

NextStream == Write \/ Damage \/ Read

SpecStream == InitBuilt /\ [][NextStream]_vars

\* ------------------------------------------------------ the properties
Dims(T) == 0..current_dimension(T)

VerticesOf(T, s) == {T.full_cells[s].vertex[k] : k \in Dims(T)}

\* P1, P2
NeighborSymmetry(T) ==
  \A s \in LiveCells(T) : \A i \in Dims(T) :
    LET t == T.full_cells[s].neighbor[i]
        m == T.full_cells[s].mirror_index[i]
    IN /\ is_full_cell(T, t)
       /\ m \in Dims(T)
       /\ T.full_cells[t].neighbor[m] = s
       /\ T.full_cells[t].mirror_index[m] = i

\* P3
DistinctVertices(T) ==
  \A s \in LiveCells(T) : \A i \in Dims(T) : \A j \in Dims(T) :
    i # j => T.full_cells[s].vertex[i] # T.full_cells[s].vertex[j]

\* P5
SharedFacets(T) ==
  \A s \in LiveCells(T) : \A i \in Dims(T) :
    LET t == T.full_cells[s].neighbor[i]
        m == T.full_cells[s].mirror_index[i]
    IN /\ is_full_cell(T, t)
       /\ m \in Dims(T)
       /\ {T.full_cells[s].vertex[k] : k \in Dims(T) \ {i}}
            = {T.full_cells[t].vertex[k] : k \in Dims(T) \ {m}}
       /\ T.full_cells[s].vertex[i] \notin VerticesOf(T, t)

\* P4
BackReferences(T) ==
  \A v \in LiveVertices(T) :
    /\ is_full_cell(T, T.vertices[v].full_cell)
    /\ \E k \in 0..(IF current_dimension(T) > 0
                     THEN current_dimension(T) ELSE 0) :
         T.full_cells[T.vertices[v].full_cell].vertex[k] = v

\* P6
NoVisitedMark(T) == \A s \in LiveCells(T) : ~T.full_cells[s].visited

FacetVertices(T, s, i) == {T.full_cells[s].vertex[k] : k \in Dims(T) \ {i}}

\* P7 and the connectivity half of I4
PseudoManifold(T) ==
  /\ Connected(T, LiveCells(T))
  /\ \A s \in LiveCells(T) : \A i \in Dims(T) :
       LET F == FacetVertices(T, s, i)
           holders == {c \in LiveCells(T) : F \subseteq VerticesOf(T, c)}
       IN /\ Cardinality(holders) = 2
          /\ s \in holders
          /\ T.full_cells[s].neighbor[i] \in holders \ {s}
  /\ number_of_full_cells(T) * (current_dimension(T) + 1)
       = 2 * Cardinality({FacetVertices(T, s, i) :
                            s \in LiveCells(T), i \in Dims(T)})

\* ------------------------------------------------------------ the claims
ListedMutators ==
  {"insert_increase_dimension", "insert_in_full_cell", "insert_in_face",
   "insert_in_facet", "insert_in_hole", "remove_decrease_dimension"}

Mutators == ListedMutators \cup {"collapse_face"}

MarkingOperations ==
  {"gather_full_cells", "incident_full_cells", "incident_full_cells_vertex",
   "star", "incident_faces", "insert_in_face", "insert_in_facet",
   "insert_in_hole", "collapse_face", "insert_increase_dimension",
   "remove_decrease_dimension"}

CellSet(T) == {T.out[k] : k \in 1..Len(T.out)}

\* the cells the call o replaces by the star of the new vertex
HoleOf(T, o) ==
  CASE o.name = "insert_in_hole" -> o.H
    [] o.name = "insert_in_face" -> CellSet(incident_full_cells(T, o.f))
    [] o.name = "insert_in_facet" -> FacetHole(T, o.ft)
    [] o.name = "collapse_face" -> CellSet(star_full_cells(T, o.f))
    [] OTHER -> {}

\* the vertices the call o itself deletes
DeletedBy(T, o) ==
  IF o.name = "collapse_face"
  THEN {face_vertex(T, o.f, i) : i \in 0..feature_dimension(o.f)}
  ELSE {}

\* some vertex that stays in the pool has all its cells in H
Swallows(T, H, gone) ==
  \E v \in LiveVertices(T) \ gone :
    {c \in LiveCells(T) : v \in VerticesOf(T, c)} \subseteq H

\* the structure the last call started from was valid and unmarked
ValidBefore == is_valid(pre) /\ NoVisitedMark(pre)

\* the (d-2)-face of the facet F = <<s, i>> opposite to slot j of s
Ridge(T, F, j) ==
  VerticesOf(T, F[1]) \ {T.full_cells[F[1]].vertex[F[2]],
                         T.full_cells[F[1]].vertex[j]}

\* the boundary facets of H next to F around that face: reached from F
\* through cells of H that contain the face
AdjacentFacets(T, H, F, j) ==
  {G \in BoundaryFacets(T, H) \ {F} :
     /\ Ridge(T, F, j) \subseteq FacetVertices(T, G[1], G[2])
     /\ G[1] \in Reach(T, {c \in H : Ridge(T, F, j) \subseteq VerticesOf(T, c)},
                       {F[1]})}

RECURSIVE FacetReach(_, _, _)
FacetReach(T, H, R) ==
  LET R2 == R \cup UNION {AdjacentFacets(T, H, F, j) :
                            F \in R, j \in Dims(T)}
  IN IF R2 = R THEN R ELSE FacetReach(T, H, R2)

\* every boundary facet of H is linked to f by a chain of boundary facets,
\* each next to the previous one around a (d-2)-face
BoundaryConnected(T, H, f) == FacetReach(T, H, {f}) = BoundaryFacets(T, H)

\* in T2 the cell c is the new cell on the boundary facet F of the hole in T
StandsOn(T, T2, c, F, v) ==
  /\ is_full_cell(T2, c)
  /\ c \notin LiveCells(T)
  /\ T2.full_cells[c].vertex[F[2]] = v
  /\ \A j \in Dims(T) \ {F[2]} :
       T2.full_cells[c].vertex[j] = T.full_cells[F[1]].vertex[j]
  /\ T2.full_cells[c].neighbor[F[2]] = T.full_cells[F[1]].neighbor[F[2]]
  /\ T2.full_cells[c].mirror_index[F[2]]
       = T.full_cells[F[1]].mirror_index[F[2]]

StarOfNewVertex(T, T2, H, v) ==
  LET B == BoundaryFacets(T, H)
      New == LiveCells(T2) \ LiveCells(T)
  IN /\ v \notin LiveVertices(T)
     /\ LiveVertices(T2) \ LiveVertices(T) = {v}
     /\ \A F \in B : Cardinality({c \in New : StandsOn(T, T2, c, F, v)}) = 1
     /\ \A F \in B : \A c \in New :
          StandsOn(T, T2, c, F, v) =>
            \A j \in Dims(T) \ {F[2]} :
              \E G \in AdjacentFacets(T, H, F, j) :
                StandsOn(T, T2, T2.full_cells[c].neighbor[j], G, v)
     /\ \A c \in New : \E F \in B : StandsOn(T, T2, c, F, v)

\* the last call is insert_in_hole(H, f) with H connected, a proper subset
\* of the cells, and f on its boundary
HoleInput ==
  /\ op.name = "insert_in_hole"
  /\ Connected(pre, op.H)
  /\ op.H # LiveCells(pre)
  /\ op.f \in BoundaryFacets(pre, op.H)

Frame(T, T2, H) ==
  /\ H \cap LiveCells(T2) = {}
  /\ LiveVertices(T) \subseteq LiveVertices(T2)
  /\ \A c \in LiveCells(T) \ H :
       /\ is_full_cell(T2, c)
       /\ T2.full_cells[c].vertex = T.full_cells[c].vertex
       /\ \A i \in Dims(T) :
            /\ T2.full_cells[c].mirror_index[i] = T.full_cells[c].mirror_index[i]
            /\ IF T.full_cells[c].neighbor[i] \in H
               THEN T2.full_cells[c].neighbor[i]
                      \in LiveCells(T2) \ LiveCells(T)
               ELSE T2.full_cells[c].neighbor[i] = T.full_cells[c].neighbor[i]

OncePerFacet(T, H, out) ==
  /\ Len(out) = Cardinality(BoundaryFacets(T, H))
  /\ \A m \in 1..Len(out) : \A n \in 1..Len(out) : out[m] = out[n] => m = n

Coned(T, T2, s, v) ==
  LET d == current_dimension(T)
      With == {c \in LiveCells(T2) : v \in VerticesOf(T2, c)}
  IN /\ v \notin LiveVertices(T)
     /\ LiveVertices(T2) = LiveVertices(T) \cup {v}
     /\ LiveCells(T) \subseteq LiveCells(T2)
     /\ Cardinality(LiveCells(T2) \ LiveCells(T)) = d
     /\ Cardinality(With) = d + 1
     /\ With = (LiveCells(T2) \ LiveCells(T)) \cup {s}
     /\ \A i \in 0..d :
          \E c \in With :
            /\ (i = 0) <=> (c = s)
            /\ T2.full_cells[c].vertex[i] = v
            /\ \A j \in (0..d) \ {i} :
                 T2.full_cells[c].vertex[j] = T.full_cells[s].vertex[j]
            /\ T2.full_cells[c].neighbor[i] = T.full_cells[s].neighbor[i]
     /\ \A c1 \in With : \A c2 \in With \ {c1} :
          \E j \in 0..d : T2.full_cells[c1].neighbor[j] = c2
     /\ is_valid(T2)
     /\ (d = 2 /\ number_of_vertices(T) = 4 /\ number_of_full_cells(T) = 4)
          => (number_of_vertices(T2) = 5 /\ number_of_full_cells(T2) = 6)

\* C1: after any finite sequence of the listed mutators that terminate
\* normally, started from the empty structure, every neighbour slot 0..d of
\* every live cell holds a live cell whose slot mirror_index points back
\* with the mirror index equal to the slot
C1_NeighborSymmetry ==
  (err = "ok" /\ used \subseteq ListedMutators /\ dcur >= 0)
    => NeighborSymmetry(State)

\* C2: after any finite sequence of mutators that terminate normally, the
\* vertices of every live cell are pairwise distinct, and a cell and its
\* neighbour across slot i share exactly the d vertices other than the two
\* opposite ones
C2_DistinctAndShared ==
  (err = "ok" /\ used \subseteq Mutators /\ dcur >= 0)
    => (DistinctVertices(State) /\ SharedFacets(State))

C5_PseudoManifold ==
  (err = "ok" /\ used \subseteq Mutators /\ dcur >= 1)
    => PseudoManifold(State)

C7_EveryConnectedHole ==
  (ValidBefore /\ HoleInput /\ err = "ok") => Frame(pre, State, op.H)

\* C7 amended: the same, for a hole whose boundary facets are all linked to
\* the starting facet by chains of facets adjacent around (d-2)-faces
C7_ConnectedBoundary ==
  (ValidBefore /\ HoleInput /\ err = "ok"
     /\ BoundaryConnected(pre, op.H, op.f))
    => Frame(pre, State, op.H)

C7_Witness ==
  /\ ValidBefore /\ HoleInput /\ BoundaryConnected(pre, op.H, op.f)
  /\ err = "ok"
  /\ pre.dcur = 2
  /\ Cardinality(op.H) >= 3
  /\ \E c \in LiveCells(pre) \ op.H :
       /\ \E i \in Dims(pre) : pre.full_cells[c].neighbor[i] \in op.H
       /\ \E i \in Dims(pre) : pre.full_cells[c].neighbor[i] \notin op.H

C9_Coned ==
  (ValidBefore /\ pre.dcur >= 1 /\ op.name = "insert_in_full_cell")
    => (err = "ok" /\ Coned(pre, State, op.s, ret.v))

C9_Witness ==
  /\ ValidBefore /\ op.name = "insert_in_full_cell" /\ err = "ok"
  /\ pre.dcur = 2
  /\ number_of_vertices(pre) = 4 /\ number_of_full_cells(pre) = 4
  /\ number_of_vertices(State) = 5 /\ number_of_full_cells(State) = 6

\* C10: for d >= 1 and every facet (s, i), insert_in_facet starts the hole
\* insertion from a facet (s, i') of the first cell with i' # i, which is a
\* boundary facet of the hole of the two cells sharing (s, i), and the call
\* terminates normally
C10_StartFacet ==
  (ValidBefore /\ pre.dcur >= 1 /\ op.name = "insert_in_facet")
    => /\ FacetStart(pre, op.ft)[1] = op.ft[1]
       /\ FacetStart(pre, op.ft)[2] # op.ft[2]
       /\ FacetStart(pre, op.ft) \in BoundaryFacets(pre, FacetHole(pre, op.ft))
       /\ err = "ok"

\* the cells with at least one vertex of the face f
StarCells(T, f) ==
  {c \in LiveCells(T) : VerticesOf(T, c) \cap FaceVertices(T, f) # {}}

Collapsed(T, T2, f, v) ==
  /\ v \notin LiveVertices(T)
  /\ LiveVertices(T2) = (LiveVertices(T) \ FaceVertices(T, f)) \cup {v}
  /\ number_of_vertices(T2)
       = number_of_vertices(T) + 1 - (feature_dimension(f) + 1)
  /\ \A c \in LiveCells(T2) : VerticesOf(T2, c) \cap FaceVertices(T, f) = {}
  /\ StarCells(T, f) \cap LiveCells(T2) = {}
  /\ is_valid(T2)

\* C11: on a valid triangulation, collapse_face(f) with 1 <= k < d passes
\* insert_in_hole a starting facet on the boundary of the star of f and
\* terminates normally; the vertices of f are gone from the pool and from
\* the cells, one new vertex stands for them, the star is erased and
\* is_valid holds
C11_Collapse ==
  (/\ ValidBefore
   /\ op.name = "collapse_face"
   /\ 1 <= feature_dimension(op.f)
   /\ feature_dimension(op.f) < pre.dcur)
    => /\ <<op.f.full_cell, face_index(op.f, 0)>>
            \in BoundaryFacets(pre, StarCells(pre, op.f))
       /\ err = "ok"
       /\ Collapsed(pre, State, op.f, ret.v)

\* the live cells of T with their slots 0..n, the cell handles left out
CellsUpTo(T, n) ==
  {[vertex |-> [i \in 0..n |-> T.full_cells[c].vertex[i]],
    neighbor |-> [i \in 0..n |->
                    IF is_full_cell(T, T.full_cells[c].neighbor[i])
                    THEN [j \in 0..n |->
                            T.full_cells[T.full_cells[c].neighbor[i]].vertex[j]]
                    ELSE <<T.full_cells[c].neighbor[i]>>],
    mirror_index |-> [i \in 0..n |->
                        IF is_full_cell(T, T.full_cells[c].neighbor[i])
                        THEN T.full_cells[c].mirror_index[i] ELSE 0 - 1]] :
     c \in LiveCells(T)}

\* T2 is the triangulation T again: dimension, vertices, the cells with
\* their slots 0..n (a neighbour named by its vertices, a mirror index
\* counted where there is a neighbour), back-references
Restores(T, T2, n) ==
  /\ T2.dcur = T.dcur
  /\ LiveVertices(T2) = LiveVertices(T)
  /\ number_of_full_cells(T2) = number_of_full_cells(T)
  /\ CellsUpTo(T2, n) = CellsUpTo(T, n)
  /\ BackReferences(T2)

\* the call made is remove_decrease_dimension(x, star) right after
\* insert_increase_dimension(star) returned x
RoundTrip ==
  /\ op.name = "insert_increase_dimension"
  /\ err = "ok"
  /\ op'.name = "remove_decrease_dimension"
  /\ op'.v = ret.v
  /\ op.star # Null => op'.star = op.star

\* C12: insert_increase_dimension(star) returning x followed immediately
\* by remove_decrease_dimension(x, star) terminates normally and restores
\* the triangulation the first call started from: the same dimension, the
\* same vertices, the same cells with the same vertex slots, neighbour
\* slots and mirror indices, every back-reference valid
C12_RoundTrip ==
  [][RoundTrip => (err' = "ok" /\ Restores(pre, State', AmbientDim))]_vars

\* the calls made so far are successive insert_increase_dimension calls
\* from the empty structure, all terminated normally
OnlyRaised ==
  /\ used = {"insert_increase_dimension"}
  /\ err = "ok"

\* the number of calls made so far
Calls == MaxOps - budget

\* at dimension 0 the two cells are mutual neighbours across slot 0
TwoCellsAcrossSlot0(T) ==
  T.dcur = 0 =>
    \E s \in LiveCells(T), t \in LiveCells(T) :
      /\ s # t
      /\ LiveCells(T) = {s, t}
      /\ T.full_cells[s].neighbor[0] = t
      /\ T.full_cells[t].neighbor[0] = s

\* C13: an insert_increase_dimension call that terminates normally raises
\* the dimension by one and adds one vertex; after n successive calls from
\* the empty structure the dimension is n - 2, there are n vertices and n
\* cells, is_valid and P1..P6 hold, and at dimension 0 the two cells are
\* mutual neighbours across slot 0
C13_Raised ==
  /\ (op.name = "insert_increase_dimension" /\ err = "ok")
       => /\ dcur = pre.dcur + 1
          /\ number_of_vertices(State) = number_of_vertices(pre) + 1
          /\ LiveVertices(State) = LiveVertices(pre) \cup {ret.v}
  /\ OnlyRaised
       => /\ dcur = Calls - 2
          /\ number_of_vertices(State) = Calls
          /\ number_of_full_cells(State) = Calls
          /\ is_valid(State)
          /\ NeighborSymmetry(State)
          /\ DistinctVertices(State)
          /\ BackReferences(State)
          /\ SharedFacets(State)
          /\ NoVisitedMark(State)
          /\ TwoCellsAcrossSlot0(State)

\* five successive calls have built the triangulation of dimension 3
C13_Witness ==
  /\ OnlyRaised
  /\ Calls = AmbientDim + 2
  /\ dcur = AmbientDim
  /\ number_of_full_cells(State) = AmbientDim + 2

\* insert_increase_dimension was called with a null star on a non-empty
\* structure, a non-null star on the empty one, or at the ambient dimension
Misraised ==
  /\ op.name = "insert_increase_dimension"
  /\ \/ pre.dcur # 0 - 2 /\ op.star = Null
     \/ pre.dcur = 0 - 2 /\ op.star # Null
     \/ pre.dcur = AmbientDim

\* C14: insert_increase_dimension with a null star when the dimension is
\* not -2, with a non-null star when it is -2, or at the ambient dimension
\* is a precondition violation and leaves the dimension, the vertex pool
\* and the cell pool as they were before the call
C14_Rejected ==
  Misraised
    => /\ err = "precondition"
       /\ dcur = pre.dcur
       /\ vertices = pre.vertices
       /\ full_cells = pre.full_cells

\* a null star was handed to a triangulation of dimension 1
C14_Witness ==
  /\ Misraised
  /\ op.star = Null
  /\ pre.dcur = 1
  /\ number_of_vertices(pre) = 3
  /\ err = "precondition"

\* the last call is remove_decrease_dimension(v, star) on a vertex v that
\* is not the apex over star
NoApex ==
  /\ op.name = "remove_decrease_dimension"
  /\ ~Uncones(pre, op.v, op.star)

\* C15: remove_decrease_dimension(v, star) on a vertex that is not the
\* unique apex of its dimension reports an error and leaves the structure
\* as it was: the dimension, the vertices and the cells with all their slots
C15_NoApexRejected ==
  NoApex
    => /\ err # "ok"
       /\ dcur = pre.dcur
       /\ vertices = pre.vertices
       /\ full_cells = pre.full_cells

\* the sequence out lists the cells of the set S, each once
ListsOnce(out, S) ==
  /\ {out[k] : k \in 1..Len(out)} = S
  /\ Len(out) = Cardinality(S)

\* the cells of T whose vertices include every vertex of the set V
CellsWith(T, V) == {c \in LiveCells(T) : V \subseteq VerticesOf(T, c)}

\* C16: on a valid triangulation of dimension d >= 1, incident_full_cells
\* of a face of feature dimension 0..d outputs the live cells that contain
\* every vertex of the face, each once, and incident_full_cells of a vertex
\* outputs the cells that have the vertex
C16_IncidentCells ==
  /\ (ValidBefore /\ pre.dcur >= 1 /\ op.name = "incident_full_cells")
       => /\ err = "ok"
          /\ ListsOnce(ret.out, CellsWith(pre, FaceVertices(pre, op.f)))
  /\ (ValidBefore /\ pre.dcur >= 1 /\ op.name = "incident_full_cells_vertex")
       => /\ err = "ok"
          /\ ListsOnce(ret.out, CellsWith(pre, {op.v}))

\* the cells around an edge of a triangulation of dimension 3 were
\* gathered: some cells are listed and some are not
C16_Witness ==
  /\ ValidBefore
  /\ pre.dcur = 3
  /\ op.name = "incident_full_cells"
  /\ feature_dimension(op.f) = 1
  /\ err = "ok"
  /\ Len(ret.out) >= 3
  /\ Len(ret.out) < number_of_full_cells(pre)

SimplicesWith(T, v, k) ==
  {V \in UNION {SUBSET VerticesOf(T, c) : c \in LiveCells(T)} :
     Cardinality(V) = k + 1 /\ v \in V}

\* the face f of T names k + 1 pairwise distinct vertices of its cell, v
\* one of them
NamesSimplex(T, f, v, k) ==
  /\ is_full_cell(T, f.full_cell)
  /\ feature_dimension(f) = k
  /\ \A i \in 0..k : face_index(f, i) \in Dims(T)
  /\ Cardinality(FaceVertices(T, f)) = k + 1
  /\ v \in FaceVertices(T, f)

\* C18: on a valid triangulation of dimension d, incident_faces(v, k) with
\* upper_faces false and 0 < k < d outputs one face per k-simplex that
\* contains v and nothing else: each face names k + 1 pairwise distinct
\* vertices of its cell, v one of them, and no two faces name the same
\* vertices; for k >= d nothing is output
C18_IncidentFaces ==
  (/\ ValidBefore
   /\ op.name = "incident_faces"
   /\ ~op.upper_faces)
    => /\ err = "ok"
       /\ op.k >= pre.dcur => ret.out = <<>>
       /\ op.k < pre.dcur =>
            /\ \A n \in 1..Len(ret.out) : NamesSimplex(pre, ret.out[n], op.v, op.k)
            /\ {FaceVertices(pre, ret.out[n]) : n \in 1..Len(ret.out)}
                 = SimplicesWith(pre, op.v, op.k)
            /\ Len(ret.out) = Cardinality(SimplicesWith(pre, op.v, op.k))

\* the rotor r2 is the rotor r of T moved across slot x of its cell, its
\* covertex the vertex in slot y of that cell
Crossed(T, r, r2, x, y) ==
  LET s == r[1]
      t == T.full_cells[s].neighbor[x]
  IN /\ is_full_cell(T, t)
     /\ r2[1] = t
     /\ r2[2] \in Dims(T)
     /\ T.full_cells[t].vertex[r2[2]] = T.full_cells[s].vertex[y]
     /\ r2[3] = T.full_cells[s].mirror_index[x]

\* the last call is rotate_rotor on a rotor of a valid triangulation
Rotated ==
  /\ op.name = "rotate_rotor"
  /\ ValidBefore

\* C19 as stated: rotate_rotor on the rotor (s, i, j) crosses the facet of
\* s opposite vertex j: it returns (s.neighbor[j],
\* s.neighbor[j].index(s.vertex[i]), s.mirror_index[j])
C19_CrossesSecondCovertex ==
  Rotated
    => \A n \in 1..(Len(ret.out) - 1) :
         Crossed(pre, ret.out[n], ret.out[n + 1],
                 index_of_second_covertex(ret.out[n]),
                 index_of_covertex(ret.out[n]))

\* C19 amended: rotate_rotor on the rotor (s, i, j) crosses the facet of s
\* opposite vertex i, its covertex: it returns (s.neighbor[i],
\* s.neighbor[i].index(s.vertex[j]), s.mirror_index[i])
C19_CrossesCovertex ==
  Rotated
    => \A n \in 1..(Len(ret.out) - 1) :
         Crossed(pre, ret.out[n], ret.out[n + 1],
                 index_of_covertex(ret.out[n]),
                 index_of_second_covertex(ret.out[n]))

\* a rotor of a triangulation of dimension 3 was rotated into another cell
C19_Witness ==
  /\ Rotated
  /\ pre.dcur = 3
  /\ Len(ret.out) = 2
  /\ ret.out[2][1] # ret.out[1][1]
  /\ ret.out[2][3] # ret.out[1][2]

\* the cells around the (d-2)-face of the rotor r
Fan(T, r) ==
  CellsWith(T, VerticesOf(T, r[1])
                 \ {T.full_cells[r[1]].vertex[r[2]],
                    T.full_cells[r[1]].vertex[r[3]]})

ValidityConditions(T) ==
  /\ T.dcur = 0 - 2 =>
       (number_of_vertices(T) = 0 /\ number_of_full_cells(T) = 0)
  /\ T.dcur = 0 - 1 =>
       (number_of_vertices(T) = 1 /\ number_of_full_cells(T) = 1)
  /\ BackReferences(T)
  /\ DistinctVertices(T)
  /\ \A s \in LiveCells(T) : \A i \in Dims(T) :
       T.full_cells[s].neighbor[i] # Null
  /\ NeighborSymmetry(T)
  /\ SharedFacets(T)

\* C21: on every state built with the low-level mutators is_valid returns,
\* and returns true exactly when the conditions of validity hold; it
\* returns false when two neighbours have all d + 1 vertices in common
C21_IsValidExactly ==
  op.name = "is_valid"
    => /\ err = "ok"
       /\ ret.v <=> ValidityConditions(pre)

\* the slot k of cell c is the one set_neighbors(s, i, t, j) writes for s,
\* or the one it writes for t
WrittenFor(c, k, s, i) == c = s /\ k = i

\* the call set_neighbors(s, i, t, j) on T gave the cells U: the two slots
\* hold the other cell and the other index, every other slot and field of
\* every cell is as before
Linked(T, U, s, i, t, j) ==
  /\ U[s].neighbor[i] = t
  /\ U[t].neighbor[j] = s
  /\ U[s].mirror_index[i] = j
  /\ U[t].mirror_index[j] = i
  /\ \A c \in FCH :
       /\ U[c].live = T.full_cells[c].live
       /\ U[c].vertex = T.full_cells[c].vertex
       /\ \A k \in Slots :
            ~(WrittenFor(c, k, s, i) \/ WrittenFor(c, k, t, j))
              => /\ U[c].neighbor[k] = T.full_cells[c].neighbor[k]
                 /\ U[c].mirror_index[k] = T.full_cells[c].mirror_index[k]

\* C24: set_neighbors(s, i, t, j) with non-null handles and indices in
\* range writes the two neighbour slots and the two mirror indices and
\* nothing else, so that a former neighbour keeps its pointer; with a null
\* handle or an index out of range it fails its precondition and nothing
\* is written
C24_SetNeighbors ==
  op.name = "set_neighbors"
    => IF /\ op.s # Null /\ op.t # Null
          /\ check_range(pre, op.i) /\ check_range(pre, op.j)
       THEN /\ err = "ok"
            /\ dcur = pre.dcur
            /\ vertices = pre.vertices
            /\ Linked(pre, full_cells, op.s, op.i, op.t, op.j)
       ELSE /\ err = "precondition"
            /\ dcur = pre.dcur
            /\ vertices = pre.vertices
            /\ full_cells = pre.full_cells

\* two cells that were neighbours of each other, and the first is linked
\* to a third cell: the second still points to the first
C24_Witness ==
  /\ op.name = "set_neighbors" /\ err = "ok"
  /\ op.s # op.t
  /\ LET u == pre.full_cells[op.s].neighbor[op.i]
     IN /\ u \in LiveCells(pre) \ {op.s, op.t}
        /\ \E k \in Dims(pre) : /\ pre.full_cells[u].neighbor[k] = op.s
                                 /\ full_cells[u].neighbor[k] = op.s
  /\ full_cells[op.s].neighbor[op.i] = op.t

\* a call with an index out of range
C24_Rejected ==
  /\ op.name = "set_neighbors" /\ err = "precondition"
  /\ op.s # Null /\ op.t # Null
  /\ ~check_range(pre, op.j)

\* the call made is collapse_face on a face of codimension 0 (a full cell
\* with all its vertices) holding the vertex that insert_in_face has just
\* returned on a valid triangulation
CollapsesInserted ==
  /\ op.name = "insert_in_face"
  /\ err = "ok"
  /\ is_valid(pre)
  /\ op'.name = "collapse_face"
  /\ feature_dimension(op'.f) = dcur
  /\ ret.v \in FaceVertices(State, op'.f)

\* C25: on a valid triangulation insert_in_face(f) returning v_new followed
\* by collapse_face on a face of codimension 0 on v_new terminates normally
\* and gives a valid triangulation of the same dimension with as many
\* vertices and cells as before the insertion
C25_InsertThenCollapse ==
  [][CollapsesInserted
       => /\ err' = "ok"
          /\ dcur' = pre.dcur
          /\ number_of_vertices(State') = number_of_vertices(pre)
          /\ number_of_full_cells(State') = number_of_full_cells(pre)
          /\ is_valid(State')]_vars

\* collapse_face on a full cell or a facet of the inserted vertex does not
\* terminate normally
C25_NeverCollapses ==
  (op.name = "collapse_face" /\ is_valid(pre)) => err = "precondition"

\* the slots above the current dimension of every live cell of T hold a
\* null vertex and a null neighbour
UpperSlotsNull(T) ==
  \A c \in LiveCells(T) : \A k \in Slots :
    k > current_dimension(T)
      => /\ T.full_cells[c].vertex[k] = Null
         /\ T.full_cells[c].neighbor[k] = Null

\* C26: after every call of a mutator that terminates normally at a
\* dimension d >= 0, every live cell has a null vertex and a null neighbour
\* in the slots d + 1 .. D; so after remove_decrease_dimension from
\* dimension 1 both remaining cells have slot 1 null
C26_UpperSlotsNull ==
  (err = "ok" /\ dcur >= 0) => UpperSlotsNull(State)

\* the same after the calls that are not remove_decrease_dimension from
\* dimension 1, and after that call once the slots were null before
C26_UpperSlotsElsewhere ==
  (/\ err = "ok" /\ dcur >= 0
   /\ UpperSlotsNull(pre)
   /\ ~(op.name = "remove_decrease_dimension" /\ pre.dcur = 1))
    => UpperSlotsNull(State)

\* the calls made so far are dimension increases from the empty structure
\* up to a dimension d >= 0, one more increase with a star, and the removal
\* of the vertex it returned with the same star: every call but the last
\* raised the dimension by one
RaisedThenLowered ==
  /\ op.name = "remove_decrease_dimension"
  /\ pre.dcur = (MaxCycleOps - budget) - 3
  /\ pre.dcur >= 1

\* C27: from every dimension d in 0..D-1 reached by dimension increases,
\* insert_increase_dimension(star), remove_decrease_dimension(x, star) and
\* insert_increase_dimension(star) again terminate normally and give a
\* structure of dimension d + 1 with d + 3 vertices and d + 3 cells on
\* which is_valid holds
C27_RaiseLowerRaise ==
  /\ [](RaisedThenLowered => err = "ok")
  /\ [][(/\ RaisedThenLowered
         /\ op'.name = "insert_increase_dimension"
         /\ op'.star = op.star)
          => /\ err' = "ok"
             /\ dcur' = pre.dcur
             /\ number_of_vertices(State') = pre.dcur + 2
             /\ number_of_full_cells(State') = pre.dcur + 2
             /\ is_valid(State')]_vars

\* the same from the dimensions d >= 1
C27_FromDimensionOne ==
  /\ [](RaisedThenLowered => err = "ok")
  /\ [][(/\ RaisedThenLowered
         /\ pre.dcur >= 2
         /\ op'.name = "insert_increase_dimension"
         /\ op'.star = op.star)
          => /\ err' = "ok"
             /\ dcur' = pre.dcur
             /\ number_of_vertices(State') = pre.dcur + 2
             /\ number_of_full_cells(State') = pre.dcur + 2
             /\ is_valid(State')]_vars

\* the cells reached from the cells R across the facets whose covertex
\* slot is in I
RECURSIVE ReachAcross(_, _, _)
ReachAcross(T, I, R) ==
  LET R2 == R \cup {T.full_cells[s].neighbor[i] : s \in R, i \in I}
  IN IF R2 = R THEN R ELSE ReachAcross(T, I, R2)

\* the cells of the sequence out
Emitted(out) == {out[k] : k \in 1..Len(out)}

\* C28: gather_full_cells(start, predicate), the predicate a function of
\* the facet, outputs the cells reachable from start by a path of facets
\* the predicate accepts, each once and start first, and no other cell; of
\* a facet (s, i) returned, s was output and the neighbour of s across i
\* was not
C28_GathersReachable ==
  (ValidBefore /\ op.name = "gather_full_cells")
    => /\ err = "ok"
       /\ ListsOnce(ret.out, ReachAcross(pre, op.I, {op.start}))
       /\ ret.out[1] = op.start
       /\ ret.ft # NoFacet
            => /\ ret.ft[1] \in Emitted(ret.out)
               /\ pre.full_cells[ret.ft[1]].neighbor[ret.ft[2]]
                    \notin Emitted(ret.out)

\* the predicate gives one answer for all the facets that lead to a cell
AnswersByCell(T, I) ==
  \A f \in Facets(T), g \in Facets(T) :
    T.full_cells[f[1]].neighbor[f[2]] = T.full_cells[g[1]].neighbor[g[2]]
      => (f[2] \in I <=> g[2] \in I)

\* C28, amended: the cells output are reachable, each is output once,
\* start first; every cell output but start is the neighbour of a cell
\* output before it across an accepted facet; the cells output are all the
\* reachable ones when the predicate gives one answer for all the facets
\* that lead to a cell; the returned facet is a rejected facet of a cell
\* output whose neighbour was not output; the visited marks are cleared
C28_GathersSomeReachable ==
  (ValidBefore /\ op.name = "gather_full_cells")
    => /\ err = "ok"
       /\ Emitted(ret.out) \subseteq ReachAcross(pre, op.I, {op.start})
       /\ Len(ret.out) = Cardinality(Emitted(ret.out))
       /\ ret.out[1] = op.start
       /\ \A k \in 2..Len(ret.out) :
            \E m \in 1..(k - 1), i \in op.I :
              pre.full_cells[ret.out[m]].neighbor[i] = ret.out[k]
       /\ AnswersByCell(pre, op.I)
            => Emitted(ret.out) = ReachAcross(pre, op.I, {op.start})
       /\ ret.ft # NoFacet
            => /\ ret.ft[1] \in Emitted(ret.out)
               /\ ret.ft[2] \notin op.I
               /\ pre.full_cells[ret.ft[1]].neighbor[ret.ft[2]]
                    \notin Emitted(ret.out)
       /\ full_cells = pre.full_cells

\* a cell reachable across accepted facets is not output
C28_Witness ==
  /\ ValidBefore /\ op.name = "gather_full_cells" /\ err = "ok"
  /\ Emitted(ret.out) # ReachAcross(pre, op.I, {op.start})
  /\ Len(ret.out) >= 2
  /\ ret.ft # NoFacet

\* the structure T with the slots a and b of the cells C swapped, the
\* vertices with the neighbours and the mirror indices, the neighbours
\* told their new mirror index
RECURSIVE SwappedIn(_, _, _, _)
SwappedIn(T, C, a, b) ==
  IF C = {} THEN T
  ELSE SwappedIn(swap_vertices(T, MinOf(C), a, b), C \ {MinOf(C)}, a, b)

\* the call of do_insert_increase_dimension made by the last
\* insert_increase_dimension call, up to the parity correction
BeforeParity ==
  ExtendedAndLinked(new_vertex(set_current_dimension(pre, pre.dcur + 1)),
                    ret.v, op.star).t

\* a dimension increase from a dimension d >= 0 that terminated normally
RaisedByCone ==
  /\ op.name = "insert_increase_dimension"
  /\ err = "ok"
  /\ pre.dcur >= 0

\* C29: in do_insert_increase_dimension from the old dimension d the parity
\* correction is applied exactly when d is even and d >= 2, and it swaps
\* the slots d and d - 1 of every cell that does not contain star;
\* otherwise nothing is swapped
C29_ParityOnEvenOld ==
  RaisedByCone
    => ParityCorrected(BeforeParity, ret.v).full_cells
         = (IF pre.dcur % 2 = 0 /\ pre.dcur >= 2
            THEN SwappedIn(BeforeParity,
                           {c \in LiveCells(BeforeParity) :
                              op.star \notin VerticesOf(BeforeParity, c)},
                           pre.dcur, pre.dcur - 1)
            ELSE BeforeParity).full_cells

\* C29, amended: the parity correction is applied exactly when the old
\* dimension d is odd, that is when the new dimension d + 1 is even, and
\* it swaps the slots d and d + 1 of every cell that does not hold the new
\* vertex: the twins just created, which contain star; otherwise nothing
\* is swapped
C29_ParityOnEvenNew ==
  RaisedByCone
    => /\ ParityCorrected(BeforeParity, ret.v).full_cells
            = (IF pre.dcur % 2 = 1
               THEN SwappedIn(BeforeParity,
                              {c \in LiveCells(BeforeParity) :
                                 ret.v \notin VerticesOf(BeforeParity, c)},
                              pre.dcur, pre.dcur + 1)
               ELSE BeforeParity).full_cells
       /\ \A c \in LiveCells(BeforeParity) :
            ret.v \notin VerticesOf(BeforeParity, c)
              <=> /\ c \notin LiveCells(pre)
                  /\ op.star \in VerticesOf(BeforeParity, c)

\* a dimension increase from dimension 1: the two last slots of a twin
\* were swapped
C29_Witness ==
  /\ RaisedByCone
  /\ pre.dcur = 1
  /\ ParityCorrected(BeforeParity, ret.v).full_cells # BeforeParity.full_cells

\* a dimension increase from dimension 2: nothing was swapped
C29_EvenOldUnswapped ==
  /\ RaisedByCone
  /\ pre.dcur = 2
  /\ ParityCorrected(BeforeParity, ret.v).full_cells = BeforeParity.full_cells

\* the rank of the handle h in the sequence, 0 for a handle not in it
Rank(seq, h) ==
  IF \E k \in 1..Len(seq) : seq[k] = h
  THEN CHOOSE k \in 1..Len(seq) : seq[k] = h
  ELSE 0

\* the cells of T in iteration order, the vertices and the neighbours of
\* the slots 0..d named by their rank in the iteration order
LabelledCells(T) ==
  LET vs == SeqOfSet(LiveVertices(T))
      cs == SeqOfSet(LiveCells(T))
  IN [c \in 1..Len(cs) |->
        [vertex |-> [i \in Dims(T) |-> Rank(vs, T.full_cells[cs[c]].vertex[i])],
         neighbor |->
           [i \in Dims(T) |-> Rank(cs, T.full_cells[cs[c]].neighbor[i])]]]

\* T2 has the dimension, the counts and the labelled cells of T, and
\* symmetric mirror indices
SameCombinatorics(T, T2) ==
  /\ T2.dcur = T.dcur
  /\ number_of_vertices(T2) = number_of_vertices(T)
  /\ number_of_full_cells(T2) = number_of_full_cells(T)
  /\ LabelledCells(T2) = LabelledCells(T)
  /\ NeighborSymmetry(T2)

\* the stream read is the one operator<< wrote for the structure pre
ReadBack ==
  /\ op.name = "operator>>"
  /\ op.is = write_tds(pre)

\* C22: for every triangulation built by the public mutators, the empty
\* structure and the single vertex included, operator<< followed by
\* operator>> terminates normally, without a stream error, and gives a
\* structure with the same dimension, counts, vertex and neighbour indices
\* of every cell, symmetric mirror indices and valid back-references
C22_ReadsBack ==
  ReadBack
    => /\ err = "ok"
       /\ ~op.fail
       /\ SameCombinatorics(pre, State)
       /\ BackReferences(State)

\* from the dimensions -1 and more the structure read back has all of it
\* but the back-references: no vertex read has a cell
C22_ReadsBackCells ==
  (ReadBack /\ pre.dcur >= 0 - 1)
    => /\ err = "ok"
       /\ ~op.fail
       /\ SameCombinatorics(pre, State)
       /\ \A v \in LiveVertices(State) : State.vertices[v].full_cell = Null

\* the empty structure is not read back
C22_EmptyRejected ==
  (ReadBack /\ pre.dcur = 0 - 2) => err = "precondition"

\* the stream is holds a structure: a dimension and a count of vertices,
\* and for a count other than 0 a count m of cells, m * (d + 1) indices of
\* vertices and m * (d + 1) indices of cells, all in range
WellFormed(is) ==
  /\ Len(is) >= 2
  /\ is[1] \in (0 - 2)..AmbientDim
  /\ is[2] >= 0
  /\ IF is[2] = 0 THEN Len(is) = 2
     ELSE /\ Len(is) >= 3
          /\ is[3] >= 0
          /\ Len(is) = 3 + 2 * is[3] * (is[1] + 1)
          /\ \A q \in 1..(is[3] * (is[1] + 1)) :
               /\ is[3 + q] \in 0..(is[2] - 1)
               /\ is[3 + is[3] * (is[1] + 1) + q] \in 0..(is[3] - 1)

\* the structure T is cleared
Cleared(T) ==
  /\ T.dcur = 0 - 2
  /\ number_of_vertices(T) = 0
  /\ number_of_full_cells(T) = 0

\* C23: operator>> on a malformed stream, with an index out of range,
\* truncated, or with counts that do not fit, terminates with the stream
\* in error and the structure cleared
C23_MalformedRejected ==
  (op.name = "operator>>" /\ ~WellFormed(op.is))
    => /\ err = "ok"
       /\ op.fail
       /\ Cleared(State)

\* no read of a malformed stream ends with the structure cleared
C23_NeverCleared ==
  (op.name = "operator>>" /\ ~WellFormed(op.is) /\ err = "ok")
    => ~Cleared(State)

\* a stream with an index out of range is read without a stream error
C23_OutOfRangeUnnoticed ==
  /\ op.name = "operator>>" /\ err = "ok" /\ ~op.fail
  /\ Len(op.is) > 3
  /\ \E q \in 4..Len(op.is) : op.is[q] = MaxCells

====
